---------------------------- MODULE Spec2Model ----------------------------
(***************************************************************************)
(* A model of the rule-based insights engine (insights.py): one call of    *)
(* InsightsEngine.run on a question, a SQL text and a tabular result set.  *)
(*                                                                         *)
(* Text that the code searches (question, sql, column names) is a sequence *)
(* of one-character strings, so that lower-casing and substring search are *)
(* computed as Python computes them.  Text that the code only produces     *)
(* (labels, narrative lines) is a record naming the fixed template and the *)
(* formatted numbers put into it.                                          *)
(***************************************************************************)
EXTENDS Integers, Sequences, FiniteSets, TLC

(***************************************************************************)
(* Text                                                                    *)
(***************************************************************************)
UpperCase == <<"A","B","C","D","E","F","G","H","I","J","K","L","M",
               "N","O","P","Q","R","S","T","U","V","W","X","Y","Z">>

LowerCase == <<"a","b","c","d","e","f","g","h","i","j","k","l","m",
               "n","o","p","q","r","s","t","u","v","w","x","y","z">>

\* str.lower() on one character
LowerChar(ch) ==
    IF \E i \in 1..Len(UpperCase) : UpperCase[i] = ch
    THEN LowerCase[CHOOSE i \in 1..Len(UpperCase) : UpperCase[i] = ch]
    ELSE ch

\* the characters of the texts of the model
Alphabet ==
    {UpperCase[i] : i \in 1..Len(UpperCase)} \cup {LowerCase[i] : i \in 1..Len(LowerCase)}
    \cup {" ", "_", "?", ",", "*", "0", "1", "2"}

LowerTable == [ch \in Alphabet |-> LowerChar(ch)]

\* str.lower()
Lower(s) == [i \in 1..Len(s) |-> LowerTable[s[i]]]

\* Python's  sub in s  on strings
Find(s, sub) ==
    \E i \in 1..(Len(s) - Len(sub) + 1) : SubSeq(s, i, i + Len(sub) - 1) = sub

\* any(flags)
AnyTrue(flags) == \E i \in 1..Len(flags) : flags[i]

\* the position of the first True of flags, 0 when there is none
\* (next((c for c in df.columns if ...), None), the position standing for c)
FirstTrue(flags) ==
    IF AnyTrue(flags)
    THEN CHOOSE i \in 1..Len(flags) : flags[i] /\ \A j \in 1..(i - 1) : ~flags[j]
    ELSE 0

kw_delivery == << <<"d","e","l","i","v","e","r","y">>, <<"l","a","t","e">>,
                  <<"d","e","l","a","y">>, <<"s","h","i","p","p","e","d">> >>
kw_payment  == << <<"p","a","y","m","e","n","t">>, <<"r","e","v","e","n","u","e">>,
                  <<"p","r","i","c","e">>, <<"v","a","l","u","e">> >>
kw_review   == << <<"r","e","v","i","e","w">>, <<"r","a","t","i","n","g">>,
                  <<"s","c","o","r","e">>, <<"f","e","e","d","b","a","c","k">> >>

s_delivery == <<"d","e","l","i","v","e","r","y">>
s_late     == <<"l","a","t","e">>
s_date     == <<"d","a","t","e">>
s_state    == <<"s","t","a","t","e">>
s_payment  == <<"p","a","y","m","e","n","t">>
s_price    == <<"p","r","i","c","e">>
s_value    == <<"v","a","l","u","e">>
s_revenue  == <<"r","e","v","e","n","u","e">>
s_review   == <<"r","e","v","i","e","w">>
s_score    == <<"s","c","o","r","e">>
s_rating   == <<"r","a","t","i","n","g">>

(***************************************************************************)
(* The texts of the model: the column names, questions and SQL texts the   *)
(* inputs are drawn from.                                                  *)
(***************************************************************************)
n_id            == <<"i","d">>
n_is_late       == <<"i","s","_","l","a","t","e">>
n_Is_Late       == <<"I","s","_","L","a","t","e">>
n_late_flag     == <<"l","a","t","e","_","f","l","a","g">>
n_delivery_date == <<"d","e","l","i","v","e","r","y","_","d","a","t","e">>
n_Delivery_Days == <<"D","e","l","i","v","e","r","y","_","D","a","y","s">>
n_state         == <<"s","t","a","t","e">>
n_price         == <<"p","r","i","c","e">>
n_order_value   == <<"o","r","d","e","r","_","v","a","l","u","e">>
n_review_score  == <<"r","e","v","i","e","w","_","s","c","o","r","e">>
n_rating        == <<"r","a","t","i","n","g">>

ColumnNames ==
    {n_id, n_is_late, n_Is_Late, n_late_flag, n_delivery_date, n_Delivery_Days,
     n_state, n_price, n_order_value, n_review_score, n_rating}

q_empty      == <<>>
q_late       == <<"H","o","w"," ","L","A","T","E","?">>
q_price      == <<"P","r","i","c","e">>
q_score      == <<"a","v","g"," ","S","C","O","R","E">>

sql_empty    == <<>>
sql_payment  == <<"S","E","L","E","C","T"," ","p","a","y","m","e","n","t">>
sql_feedback == <<"f","e","e","d","b","a","c","k"," ","d","e","l","a","y">>

Questions == {q_empty, q_late, q_price, q_score}
Sqls      == {sql_empty, sql_payment, sql_feedback}

\* the substrings the engine searches for
Needles ==
    {kw_delivery[i] : i \in 1..Len(kw_delivery)} \cup {kw_payment[i] : i \in 1..Len(kw_payment)}
    \cup {kw_review[i] : i \in 1..Len(kw_review)}
    \cup {s_delivery, s_late, s_date, s_state, s_payment, s_price, s_value,
          s_revenue, s_review, s_score, s_rating}

\* the lower-cased texts the engine searches in
SearchedTexts == {Lower(t) : t \in ColumnNames \cup Questions \cup Sqls}

\* Find, computed once for the texts of the model
FindTable == [s \in SearchedTexts, sub \in Needles |-> Find(s, sub)]

\* Python's  sub in s  on strings
Contains(s, sub) ==
    IF s \in SearchedTexts /\ sub \in Needles THEN FindTable[s, sub] ELSE Find(s, sub)


(***************************************************************************)
(* Result sets (pandas.DataFrame)                                          *)
(*                                                                         *)
(* A data frame is a sequence of columns; a column has a name, a dtype     *)
(* ("int64", "float64", "bool", "object"), one value per row and the set   *)
(* na of rows whose value is missing (NaN).  Numbers are integers, a bool  *)
(* column holds 0/1, an object column holds strings.                       *)
(***************************************************************************)
MaxRows == 11
MaxCols == 2

RowCounts == {0, 1, 5, 10, MaxRows}

\* The columns a result set is drawn from, each with the rule that fills it.
ColumnPool == <<
    [name |-> n_id,            dtype |-> "int64",   fill |-> "rownum"],
    [name |-> n_is_late,       dtype |-> "bool",    fill |-> "first_late"],
    [name |-> n_Is_Late,       dtype |-> "object",  fill |-> "yes_no"],
    [name |-> n_late_flag,     dtype |-> "float64", fill |-> "first_late_last_nan"],
    [name |-> n_delivery_date, dtype |-> "object",  fill |-> "date"],
    [name |-> n_Delivery_Days, dtype |-> "int64",   fill |-> "rownum"],
    [name |-> n_state,         dtype |-> "object",  fill |-> "two_states"],
    [name |-> n_price,         dtype |-> "object",  fill |-> "money_text"],
    [name |-> n_order_value,   dtype |-> "int64",   fill |-> "one_large"],
    [name |-> n_review_score,  dtype |-> "int64",   fill |-> "scores_mixed"],
    [name |-> n_rating,        dtype |-> "int64",   fill |-> "ratings_edge"] >>

ScoresMixed == <<4, 2, 1, 1, 5, 5, 5, 5, 5, 5>>

\* 1 row: average 3.0; 5 rows: average 4.0; 10 rows: average 3.0
RatingsEdge == <<3, 5, 5, 5, 2, 2, 2, 2, 2, 2>>

\* the value of row i of n under a fill rule
FillValue(fill, i, n) ==
    CASE fill = "rownum"     -> i
      [] fill = "first_late" -> IF i = 1 THEN 1 ELSE 0
      [] fill = "first_late_last_nan" -> IF i = 1 /\ n > 1 THEN 1 ELSE 0
      \* 100 in every row but the last; up to 5 rows the last is 500, from 6
      \* rows on it makes the mean exactly 1.5 x the median
      [] fill = "one_large"  ->
            IF i < n THEN 100 ELSE IF n <= 5 THEN 500 ELSE 50 * n + 100
      [] fill = "scores_mixed" -> ScoresMixed[((i - 1) % Len(ScoresMixed)) + 1]
      [] fill = "ratings_edge" -> RatingsEdge[((i - 1) % Len(RatingsEdge)) + 1]
      [] fill = "yes_no"     -> IF i = 1 THEN "yes" ELSE "no"
      [] fill = "date"       -> "2018-01-01"
      [] fill = "two_states" -> IF i % 2 = 1 THEN "SP" ELSE "RJ"
      [] fill = "money_text" -> "R$ 10"

FillNa(fill, n) ==
    IF fill = "first_late_last_nan" /\ n >= 1 THEN {n} ELSE {}

Column(spec, n) ==
    [name  |-> spec.name,
     dtype |-> spec.dtype,
     vals  |-> [i \in 1..n |-> FillValue(spec.fill, i, n)],
     na    |-> FillNa(spec.fill, n)]

RECURSIVE SortedSeq(_)
\* the elements of a finite set of integers in increasing order
SortedSeq(S) ==
    IF S = {} THEN <<>>
    ELSE LET m == CHOOSE x \in S : \A y \in S : x <= y
         IN  <<m>> \o SortedSeq(S \ {m})

Reverse(seq) == [i \in 1..Len(seq) |-> seq[Len(seq) + 1 - i]]

\* the pool columns picked by idx, in pool order or reversed, with n rows
MakeDF(idx, reversed, n) ==
    LET order == IF reversed THEN Reverse(SortedSeq(idx)) ELSE SortedSeq(idx)
    IN  [nrows |-> n,
         cols  |-> [k \in 1..Len(order) |-> Column(ColumnPool[order[k]], n)]]

\* wider result sets, on which several blocks apply at once
WideFrames ==
    { {2, 7, 9, 10},      \* is_late, state, order_value, review_score
      {3, 7, 9, 10},      \* Is_Late (text), state, order_value, review_score
      {3, 9, 10},         \* Is_Late (text), order_value, review_score
      {4, 7, 9, 10},      \* late_flag, state, order_value, review_score
      {6, 8, 9, 10},      \* Delivery_Days, price (text), order_value, review_score
      {1, 5, 7} }         \* id, delivery_date, state

\* every choice of up to MaxCols pool columns, and the wide frames
Selections ==
    {idx \in SUBSET (1..Len(ColumnPool)) : Cardinality(idx) \in 1..MaxCols}
    \cup WideFrames

DataFrames ==
    {MakeDF(idx, rev, n) : idx \in Selections, rev \in BOOLEAN, n \in RowCounts}

\* len(df), df.columns, df.empty
NRows(df) == df.nrows
NCols(df) == Len(df.cols)

\* a plausible slip: only a frame without columns counts as empty
IsEmpty_NoColumnsOnly(df) == NCols(df) = 0

IsEmpty(df) == NRows(df) = 0 \/ NCols(df) = 0

\* the non-missing values of a column, in row order
RECURSIVE NonNullFrom(_, _)
NonNullFrom(col, i) ==
    IF i > Len(col.vals) THEN <<>>
    ELSE (IF i \in col.na THEN <<>> ELSE <<col.vals[i]>>) \o NonNullFrom(col, i + 1)

NonNull(col) == NonNullFrom(col, 1)

RECURSIVE SumSeq(_)
SumSeq(seq) == IF seq = <<>> THEN 0 ELSE Head(seq) + SumSeq(Tail(seq))

\* Series.sum(): missing values are skipped, the sum of nothing is 0
Sum(col) == SumSeq(NonNull(col))

\* Series.count(): the number of non-missing values
Count(col) == Len(NonNull(col))

\* Series.nunique over all rows: len(df[c].unique())
NUnique(col) == Cardinality({col.vals[i] : i \in 1..Len(col.vals)})

RECURSIVE InsertSorted(_, _)
InsertSorted(x, sorted) ==
    IF sorted = <<>> THEN <<x>>
    ELSE IF x <= Head(sorted) THEN <<x>> \o sorted
    ELSE <<Head(sorted)>> \o InsertSorted(x, Tail(sorted))

RECURSIVE SortInts(_)
\* the values of a sequence of integers in increasing order
SortInts(seq) ==
    IF seq = <<>> THEN <<>> ELSE InsertSorted(Head(seq), SortInts(Tail(seq)))

\* twice Series.median() (so that it is an integer); 0 when all is missing
Median2(col) ==
    LET s == SortInts(NonNull(col))
        m == Len(s)
    IN  IF m = 0 THEN 0
        ELSE IF m % 2 = 1 THEN 2 * s[(m + 1) \div 2]
        ELSE s[m \div 2] + s[m \div 2 + 1]

(***************************************************************************)
(* Formatted numbers and produced text                                     *)
(*                                                                         *)
(* A formatted number names its format specification and the decimal       *)
(* digits it shows: the value num/den rounded to the format's number of    *)
(* decimals, as an integer count of the last shown decimal place.  A       *)
(* division by zero (the mean of no values) shows as "nan".                *)
(***************************************************************************)
\* num/den >= 0 rounded to the nearest integer, ties to even
RoundHalfEven(num, den) ==
    LET q == num \div den
        r == num % den
    IN  IF 2 * r < den THEN q
        ELSE IF 2 * r > den THEN q + 1
        ELSE IF q % 2 = 0 THEN q ELSE q + 1

Pow10(k) == IF k = 0 THEN 1 ELSE IF k = 1 THEN 10 ELSE 100

\* f"{num/den:<style>}" with the given number of decimals
Fmt(style, num, den, decimals) ==
    [style  |-> style,
     nan    |-> (den = 0),
     digits |-> IF den = 0 THEN 0 ELSE RoundHalfEven(num * Pow10(decimals), den),
     str    |-> <<>>]

\* f"{s}" for a text value or a column name
FmtStr(s) == [style |-> "s", nan |-> FALSE, digits |-> 0, str |-> s]

\* one line of narrative: a fixed template and the values put into it
Line(text, args) == [text |-> text, args |-> args]

BlankLine == Line("", <<>>)

Kpi(metric, value, icon) ==
    [metric |-> metric, value |-> value, change |-> "", icon |-> icon]

Chart(kind, title, arg, label) ==
    [kind |-> kind, title |-> title, arg |-> arg, label |-> label]

RECURSIVE Join(_, _)
\* sep.join(parts) for parts that are sequences of pieces: the pieces of the
\* parts in order, with sep between one part and the next
Join(sep, parts) ==
    IF parts = <<>> THEN <<>>
    ELSE IF Len(parts) = 1 THEN parts[1]
    ELSE parts[1] \o <<sep>> \o Join(sep, Tail(parts))

\* what a block returns: None, a dict, or an exception raised inside it
NoneResult ==
    [kind |-> "none", kpis |-> <<>>, narrative |-> <<>>, chart |-> <<>>, derivation |-> ""]

RaiseResult ==
    [kind |-> "raise", kpis |-> <<>>, narrative |-> <<>>, chart |-> <<>>, derivation |-> ""]

DictResult(kpis, narrative_points, chart, derivation) ==
    [kind |-> "dict", kpis |-> kpis, narrative |-> narrative_points,
     chart |-> chart, derivation |-> derivation]

(***************************************************************************)
(* The block selector                                                      *)
(***************************************************************************)
ColNameLower(col) == Lower(col.name)

\* any(kw in q_lower or kw in sql_lower for kw in keywords)
KeywordHit(question, sql, keywords) ==
    LET q_lower   == Lower(question)
        sql_lower == Lower(sql)
    IN  AnyTrue([i \in 1..Len(keywords) |->
                Contains(q_lower, keywords[i]) \/ Contains(sql_lower, keywords[i])])

IsDeliveryMarker(c) == Contains(c, s_delivery) \/ Contains(c, s_late)

IsPaymentMarker(c) ==
    \/ Contains(c, s_payment) \/ Contains(c, s_price)
    \/ Contains(c, s_value)   \/ Contains(c, s_revenue)

IsReviewMarker(c) ==
    Contains(c, s_review) \/ Contains(c, s_score) \/ Contains(c, s_rating)

\* cols = [c.lower() for c in df.columns]
LowerCols(df) == [k \in 1..NCols(df) |-> ColNameLower(df.cols[k])]

SelectsDelivery(question, sql, df) ==
    /\ KeywordHit(question, sql, kw_delivery)
    /\ AnyTrue([k \in 1..NCols(df) |-> IsDeliveryMarker(LowerCols(df)[k])])

\* a plausible slip: a keyword alone selects the payment block
SelectsPayment_KeywordOnly(question, sql, df) ==
    KeywordHit(question, sql, kw_payment)

SelectsPayment(question, sql, df) ==
    /\ KeywordHit(question, sql, kw_payment)
    /\ AnyTrue([k \in 1..NCols(df) |-> IsPaymentMarker(LowerCols(df)[k])])

SelectsReview(question, sql, df) ==
    /\ KeywordHit(question, sql, kw_review)
    /\ AnyTrue([k \in 1..NCols(df) |-> IsReviewMarker(LowerCols(df)[k])])

\* a plausible slip: the payment test comes before the delivery test
InferBlocks_PaymentFirst(question, sql, df) ==
       (IF SelectsPayment(question, sql, df)  THEN <<"payment">>  ELSE <<>>)
    \o (IF SelectsDelivery(question, sql, df) THEN <<"delivery">> ELSE <<>>)
    \o (IF SelectsReview(question, sql, df)   THEN <<"review">>   ELSE <<>>)

\* InsightsEngine._infer_blocks
InferBlocks(question, sql, df) ==
       (IF SelectsDelivery(question, sql, df) THEN <<"delivery">> ELSE <<>>)
    \o (IF SelectsPayment(question, sql, df)  THEN <<"payment">>  ELSE <<>>)
    \o (IF SelectsReview(question, sql, df)   THEN <<"review">>   ELSE <<>>)

(***************************************************************************)
(* The analysis blocks                                                     *)
(***************************************************************************)
HighLateRatePct == 10
SkewFactorTenths == 15
ExcellentScore == 4
ConcerningScore == 3
HighRatingMin == 4
LowRatingMax == 2
HistogramMinRows == 10
MaxCharts == 2

\* df[c].dtype in [int, float, bool]
DeliveryDtypeOk(col) == col.dtype \in {"int64", "float64", "bool"}

\* df[c].dtype in [int, float]
NumericDtypeOk(col) == col.dtype \in {"int64", "float64"}

\* a plausible slip: a date column counts as a delivery column
HasDelivery_DateIncluded(col) == Contains(ColNameLower(col), s_delivery)

HasLate(col)     == Contains(ColNameLower(col), s_late)
HasDelivery(col) == Contains(ColNameLower(col), s_delivery)
                    /\ ~Contains(ColNameLower(col), s_date)
HasState(col)    == Contains(ColNameLower(col), s_state)

\* the columns the delivery block picks (late_col, delivery_col, state_col)
LateColIndex(df)     == FirstTrue([k \in 1..NCols(df) |-> HasLate(df.cols[k])])
DeliveryColIndex(df) == FirstTrue([k \in 1..NCols(df) |-> HasDelivery(df.cols[k])])
StateColIndex(df)    == FirstTrue([k \in 1..NCols(df) |-> HasState(df.cols[k])])

\* a plausible slip: late_rate >= 10
LateRateIsHigh_AtLeast(col) ==
    Count(col) > 0 /\ 100 * Sum(col) >= HighLateRatePct * Count(col)

\* late_rate > 10, where late_rate = mean * 100 and mean = sum / count;
\* the mean of no values is NaN, and NaN > 10 is False
LateRateIsHigh(col) ==
    Count(col) > 0 /\ 100 * Sum(col) > HighLateRatePct * Count(col)

DeliveryKpis(col) ==
    << Kpi("Late Delivery Rate", Fmt(".1f%", 100 * Sum(col), Count(col), 1), "truck"),
       Kpi("Late Deliveries",    Fmt(",d", Sum(col), 1, 0), "warning") >>

DeliveryNarrative(col) ==
    IF LateRateIsHigh(col)
    THEN << Line("- **High late delivery rate** at {}% - consider logistics optimization",
                 <<Fmt(".1f", 100 * Sum(col), Count(col), 1)>>) >>
    ELSE << Line("- Delivery performance is **good** with {}% late rate",
                 <<Fmt(".1f", 100 * Sum(col), Count(col), 1)>>) >>

\* df.groupby(state_col)[late_col].mean() raises on a column of strings
GroupMeanRaises(col) == col.dtype = "object"

\* a plausible slip: a narrative line written outside the dtype test, so that
\* the block can return a narrative without any metric
DeliveryBlock_NarrativeWithoutMetric(df) ==
    LET late_i     == LateColIndex(df)
        delivery_i == DeliveryColIndex(df)
        state_i    == StateColIndex(df)
        measured   == late_i # 0 /\ DeliveryDtypeOk(df.cols[late_i])
        charted    == state_i # 0 /\ late_i # 0 /\ NRows(df) > 1
    IN  IF late_i = 0 /\ delivery_i = 0 THEN NoneResult
        ELSE IF charted /\ GroupMeanRaises(df.cols[late_i]) THEN RaiseResult
        ELSE DictResult(
                IF measured THEN DeliveryKpis(df.cols[late_i]) ELSE <<>>,
                IF measured THEN DeliveryNarrative(df.cols[late_i])
                ELSE <<Line("- Late rate could not be measured", <<>>)>>,
                IF charted
                THEN <<Chart("barh", "Late Delivery Rate by State", <<>>, "Late Rate")>>
                ELSE <<>>,
                "Delivery analysis")

\* InsightsEngine._delivery_block
DeliveryBlock(df) ==
    LET late_i     == LateColIndex(df)
        delivery_i == DeliveryColIndex(df)
        state_i    == StateColIndex(df)
        measured   == late_i # 0 /\ DeliveryDtypeOk(df.cols[late_i])
        charted    == state_i # 0 /\ late_i # 0 /\ NRows(df) > 1
    IN  IF late_i = 0 /\ delivery_i = 0 THEN NoneResult
        ELSE IF charted /\ GroupMeanRaises(df.cols[late_i]) THEN RaiseResult
        ELSE DictResult(
                IF measured THEN DeliveryKpis(df.cols[late_i]) ELSE <<>>,
                IF measured THEN DeliveryNarrative(df.cols[late_i]) ELSE <<>>,
                IF charted
                THEN <<Chart("barh", "Late Delivery Rate by State", <<>>, "Late Rate")>>
                ELSE <<>>,
                "Delivery analysis")

IsValueCol(col) ==
    LET c == ColNameLower(col)
    IN  \/ Contains(c, s_value)   \/ Contains(c, s_price)
        \/ Contains(c, s_revenue) \/ Contains(c, s_payment)

GroupByNames ==
    { <<"c","a","t","e","g","o","r","y">>, <<"s","t","a","t","e">>, <<"t","y","p","e">>,
      <<"p","r","o","d","u","c","t","_","c","a","t","e","g","o","r","y","_","n","a","m","e">>,
      <<"p","a","y","m","e","n","t","_","t","y","p","e">> }

IsGroupByCol(col) == ColNameLower(col) \in GroupByNames

\* a plausible slip: the first value column that is numeric
ValueColIndex_FirstNumeric(df) ==
    FirstTrue([k \in 1..NCols(df) |->
                  IsValueCol(df.cols[k]) /\ NumericDtypeOk(df.cols[k])])

\* value_cols[0] and groupby_col, 0 when there is none
ValueColIndex(df)   == FirstTrue([k \in 1..NCols(df) |-> IsValueCol(df.cols[k])])
GroupByColIndex(df) == FirstTrue([k \in 1..NCols(df) |-> IsGroupByCol(df.cols[k])])

\* a plausible slip: avg >= median * 1.5
IsRightSkewed_AtLeast(col) ==
    Count(col) > 0 /\ 20 * Sum(col) >= SkewFactorTenths * Median2(col) * Count(col)

\* avg > median * 1.5, with avg = sum / count and median = Median2 / 2, as
\* 20 * sum > 15 * Median2 * count; a comparison with NaN (no values) is False
IsRightSkewed(col) ==
    Count(col) > 0 /\ 20 * Sum(col) > SkewFactorTenths * Median2(col) * Count(col)

\* the sort order of the group keys (groupby sorts its keys)
GroupKeyOrder == <<"2018-01-01", "R$ 10", "RJ", "SP", "no", "yes">>

KeyRank(k) == CHOOSE i \in 1..Len(GroupKeyOrder) : GroupKeyOrder[i] = k

\* df.groupby(g)[v].sum() for one key: missing values add nothing
GroupSum(g, v, key) ==
    LET rows == {i \in 1..Len(g.vals) : g.vals[i] = key /\ i \notin v.na}
        vs   == [i \in 1..Len(v.vals) |-> IF i \in rows THEN v.vals[i] ELSE 0]
    IN  SumSeq(vs)

\* top_data.index[0]: the key with the largest sum, the first such key
TopGroup(g, v) ==
    LET keys == {g.vals[i] : i \in 1..Len(g.vals)}
    IN  CHOOSE k \in keys : \A k2 \in keys :
            \/ GroupSum(g, v, k) > GroupSum(g, v, k2)
            \/ GroupSum(g, v, k) = GroupSum(g, v, k2) /\ KeyRank(k) <= KeyRank(k2)

PaymentKpis(col) ==
    << Kpi("Total Value", Fmt("$,.0f", Sum(col), 1, 0), "money"),
       Kpi("Average",     Fmt("$,.2f", Sum(col), Count(col), 2), "chart") >>

\* InsightsEngine._payment_block
PaymentBlock(df) ==
    LET value_i   == ValueColIndex(df)
        groupby_i == GroupByColIndex(df)
        grouped   == groupby_i # 0 /\ NUnique(df.cols[groupby_i]) > 1
    IN  IF value_i = 0 THEN NoneResult
        ELSE IF ~NumericDtypeOk(df.cols[value_i]) THEN NoneResult
        ELSE LET v    == df.cols[value_i]
                 g    == df.cols[groupby_i]
                 top  == TopGroup(g, v)
             IN  DictResult(
                    PaymentKpis(v),
                       (IF IsRightSkewed(v)
                        THEN <<Line("- **Right-skewed distribution** - few high-value transactions pull up the average", <<>>)>>
                        ELSE <<>>)
                    \o (IF grouped
                        THEN <<Line("- **Top performer:** {} contributes ${} ({}%)",
                                    << FmtStr(top),
                                       Fmt(",.0f", GroupSum(g, v, top), 1, 0),
                                       Fmt(".1f", 100 * GroupSum(g, v, top), Sum(v), 1) >>)>>
                        ELSE <<>>),
                    IF grouped
                    THEN <<Chart("barh", "Top 10 by {}", g.name, v.name)>>
                    ELSE <<>>,
                    "Payment analysis")

IsScoreCol(col) ==
    Contains(ColNameLower(col), s_score) \/ Contains(ColNameLower(col), s_rating)

\* score_col, 0 when there is none
ScoreColIndex(df) == FirstTrue([k \in 1..NCols(df) |-> IsScoreCol(df.cols[k])])

\* (df[score_col] >= 4).sum() and (df[score_col] <= 2).sum(): a comparison
\* with a missing value is False
HighScores(col) ==
    Cardinality({i \in 1..Len(col.vals) : i \notin col.na /\ col.vals[i] >= HighRatingMin})

LowScores(col) ==
    Cardinality({i \in 1..Len(col.vals) : i \notin col.na /\ col.vals[i] <= LowRatingMax})

\* a plausible slip: avg_score > 4.0
IsExcellent_Above(col) == Count(col) > 0 /\ Sum(col) > ExcellentScore * Count(col)

\* avg_score >= 4.0 and avg_score < 3.0; both False when the average is NaN
IsExcellent(col)  == Count(col) > 0 /\ Sum(col) >= ExcellentScore * Count(col)
IsConcerning(col) == Count(col) > 0 /\ Sum(col) < ConcerningScore * Count(col)

ReviewKpis(col) ==
    << Kpi("Avg Review Score",   Fmt(".2f/5", Sum(col), Count(col), 2), "star"),
       Kpi("High Ratings (4-5)", Fmt(",d", HighScores(col), 1, 0), "thumbs_up") >>

\* a plausible slip: len(df) >= 10
ShowsHistogram_AtLeast(df) == NRows(df) >= HistogramMinRows

\* len(df) > 10
ShowsHistogram(df) == NRows(df) > HistogramMinRows

\* InsightsEngine._review_block
ReviewBlock(df) ==
    LET score_i == ScoreColIndex(df)
    IN  IF score_i = 0 THEN NoneResult
        ELSE IF ~NumericDtypeOk(df.cols[score_i]) THEN NoneResult
        ELSE LET c == df.cols[score_i]
             IN  DictResult(
                    ReviewKpis(c),
                       (IF IsExcellent(c)
                        THEN <<Line("- **Excellent** customer satisfaction with high average rating", <<>>)>>
                        ELSE IF IsConcerning(c)
                        THEN <<Line("- **Concerning** low average rating - investigate quality issues", <<>>)>>
                        ELSE <<>>)
                    \o (IF LowScores(c) > 0
                        THEN <<Line("- {} low ratings (<=2) require attention",
                                    <<Fmt(",d", LowScores(c), 1, 0)>>)>>
                        ELSE <<>>),
                    IF ShowsHistogram(df)
                    THEN <<Chart("hist", "Review Score Distribution", <<>>, c.name)>>
                    ELSE <<>>,
                    "Review analysis")

\* df.select_dtypes(include=[np.number]).columns
NumericCols(df) == {k \in 1..NCols(df) : df.cols[k].dtype \in {"int64", "float64"}}

\* a plausible slip: the "Numeric Fields" tile is added unconditionally
GenericKpis_AlwaysNumeric(df) ==
    << Kpi("Rows Returned", Fmt(",d", NRows(df), 1, 0), "clipboard"),
       Kpi("Columns",       Fmt("d", NCols(df), 1, 0), "chart"),
       Kpi("Numeric Fields", Fmt("d", Cardinality(NumericCols(df)), 1, 0), "numbers") >>

GenericKpis(df) ==
       << Kpi("Rows Returned", Fmt(",d", NRows(df), 1, 0), "clipboard"),
          Kpi("Columns",       Fmt("d", NCols(df), 1, 0), "chart") >>
    \o (IF Cardinality(NumericCols(df)) > 0
        THEN <<Kpi("Numeric Fields", Fmt("d", Cardinality(NumericCols(df)), 1, 0), "numbers")>>
        ELSE <<>>)

\* InsightsEngine._generic_stats
GenericStats(df) ==
    DictResult(
        GenericKpis(df),
           <<Line("- Result contains **{} rows** across **{} columns**",
                  <<Fmt(",d", NRows(df), 1, 0), Fmt("d", NCols(df), 1, 0)>>)>>
        \o (IF Cardinality(NumericCols(df)) > 0
            THEN <<Line("- {} numeric field(s) available for aggregation",
                        <<Fmt("d", Cardinality(NumericCols(df)), 1, 0)>>)>>
            ELSE <<>>),
        <<>>,
        "")

\* block(df, question, sql) for the block of a kind
RunBlockOf(kind, df) ==
    CASE kind = "delivery" -> DeliveryBlock(df)
      [] kind = "payment"  -> PaymentBlock(df)
      [] kind = "review"   -> ReviewBlock(df)

(***************************************************************************)
(* The notebook bridge (notebook_bridge.py)                                *)
(*                                                                         *)
(* A namespace is the set of the names it binds to callables and the set   *)
(* of the names it binds to other values.  A function mapping is a         *)
(* function from keys to sequences of candidate names; a mapping read from *)
(* config.yaml may lack keys.                                              *)
(***************************************************************************)
FUNCTION_MAP ==
    [generate_sql |-> <<"nb_generate_sql", "generate_sql", "question_to_sql",
                        "gen", "zero_shot", "few_shot">>,
     execute_sql  |-> <<"nb_execute_sql", "execute_sql", "run_sql", "exe">>,
     evaluate     |-> <<"nb_evaluate", "evaluate", "eval_sql", "eval_tech">>,
     schema       |-> <<"nb_schema_overview", "schema_overview", "get_schema", "SCHEMA">>]

\* required = ["generate_sql", "execute_sql"]
Required == <<"generate_sql", "execute_sql">>

Namespace(callables, values) == [callables |-> callables, values |-> values]

EmptyNamespace == Namespace({}, {})

\* NotebookBridge._find_callable: the first candidate bound to a callable (or
\* the name SCHEMA bound to any value); "" stands for None
RECURSIVE FindCallable(_, _)
FindCallable(ns, candidates) ==
    IF candidates = <<>> THEN ""
    ELSE LET name == Head(candidates)
         IN  IF name \in ns.callables THEN name
             ELSE IF name \in ns.values /\ name = "SCHEMA" THEN name
             ELSE FindCallable(ns, Tail(candidates))

\* self.mapping.get(key, [])
MappingGet(mapping, key) == IF key \in DOMAIN mapping THEN mapping[key] ELSE <<>>

\* NotebookBridge._is_satisfied
IsSatisfied(ns, mapping) ==
    \A i \in 1..Len(Required) :
        Required[i] \in DOMAIN mapping =>
            FindCallable(ns, mapping[Required[i]]) # ""

\* the cells of a notebook: cell_type, whether the source holds a Colab
\* keyword, whether executing it raises, and the names it has bound to
\* callables when its execution ends
Cell(cell_type, colab, fails, defines) ==
    [cell_type |-> cell_type, colab |-> colab, fails |-> fails, defines |-> defines]

\* the loop over nb.cells of _load: exec_env after the cells
RECURSIVE ExecCells(_, _)
ExecCells(cells, exec_env) ==
    IF cells = <<>> THEN exec_env
    ELSE LET cell == Head(cells)
         IN  IF cell.cell_type # "code" \/ cell.colab
             THEN ExecCells(Tail(cells), exec_env)
             ELSE ExecCells(Tail(cells),
                     Namespace(exec_env.callables \cup cell.defines, exec_env.values))

\* what a construction of NotebookBridge ends with
Loaded(outcome, ns, tier, tried) ==
    [outcome |-> outcome, ns |-> ns, tier |-> tier, tried |-> tried]

\* _load, lines 64-113: Tier B
LoadTierB(e, tried) ==
    IF ~e.notebook.exists
    THEN Loaded("FileNotFoundError", EmptyNamespace, "", tried)
    ELSE LET exec_env == ExecCells(e.notebook.cells, EmptyNamespace)
         IN  IF IsSatisfied(exec_env, e.mapping)
             THEN Loaded("ok", exec_env, "B", Append(tried, "B"))
             ELSE Loaded("RuntimeError", exec_env, "", Append(tried, "B"))

LoadTierC(e, tried) ==
    IF ~e.pyexport.exists THEN LoadTierB(e, tried)
    ELSE IF e.pyexport.raises
    THEN Loaded("ExportError", EmptyNamespace, "", Append(tried, "C"))
    ELSE IF IsSatisfied(e.pyexport.ns, e.mapping)
    THEN Loaded("ok", e.pyexport.ns, "C", Append(tried, "C"))
    ELSE LoadTierB(e, Append(tried, "C"))

\* NotebookBridge._load: Tier A, then Tier C, then Tier B
Load(e) ==
    IF ~e.export.exists THEN LoadTierC(e, <<>>)
    ELSE IF e.export.raises
    THEN Loaded("ExportError", EmptyNamespace, "", <<"A">>)
    ELSE IF IsSatisfied(e.export.ns, e.mapping)
    THEN Loaded("ok", e.export.ns, "A", <<"A">>)
    ELSE LoadTierC(e, <<"A">>)

(***************************************************************************)
(* The environment of the bridge: the function mapping in force, the two   *)
(* exported files and the notebook.                                        *)
(***************************************************************************)
File(exists, raises, ns) == [exists |-> exists, raises |-> raises, ns |-> ns]

AbsentFile == File(FALSE, FALSE, EmptyNamespace)

Notebook(exists, cells) == [exists |-> exists, cells |-> cells]

Environment(mapping, export, pyexport, notebook) ==
    [mapping |-> mapping, export |-> export, pyexport |-> pyexport, notebook |-> notebook]

\* a function_map of config.yaml that names the execute function only
ExecuteOnlyMap == [key \in {"execute_sql"} |-> <<"run_sql">>]

BothFunctions == Namespace({"nb_generate_sql", "nb_execute_sql"}, {"conn"})
GenerateOnly  == Namespace({"generate_sql"}, {})
ExecuteOnly   == Namespace({"run_sql"}, {})

\* markdown, a Colab cell, a failing cell, then the cells with the functions
GoodCells ==
    << Cell("markdown", FALSE, FALSE, {}),
       Cell("code", TRUE, FALSE, {"zero_shot"}),
       Cell("code", FALSE, TRUE, {}),
       Cell("code", FALSE, FALSE, {"gen"}),
       Cell("code", FALSE, FALSE, {"exe"}) >>

\* the execute function is defined in a Colab cell only
LackingCells ==
    << Cell("code", FALSE, FALSE, {"gen"}),
       Cell("code", TRUE, FALSE, {"exe"}) >>

DefaultEnvironment ==
    Environment(FUNCTION_MAP, File(TRUE, FALSE, BothFunctions), AbsentFile,
                Notebook(FALSE, <<>>))

Environments ==
    { DefaultEnvironment,
      Environment(FUNCTION_MAP, File(TRUE, FALSE, GenerateOnly),
                  File(TRUE, FALSE, BothFunctions), Notebook(TRUE, LackingCells)),
      Environment(FUNCTION_MAP, AbsentFile, AbsentFile, Notebook(TRUE, GoodCells)),
      Environment(FUNCTION_MAP, File(TRUE, FALSE, GenerateOnly), AbsentFile,
                  Notebook(FALSE, <<>>)),
      Environment(FUNCTION_MAP, AbsentFile, File(TRUE, FALSE, GenerateOnly),
                  Notebook(TRUE, LackingCells)),
      Environment(FUNCTION_MAP, File(TRUE, TRUE, EmptyNamespace), AbsentFile,
                  Notebook(TRUE, GoodCells)),
      Environment(ExecuteOnlyMap, File(TRUE, FALSE, ExecuteOnly), AbsentFile,
                  Notebook(TRUE, GoodCells)),
      Environment(ExecuteOnlyMap, AbsentFile, AbsentFile, Notebook(TRUE, LackingCells)) }

(***************************************************************************)
(* Text of the application                                                 *)
(***************************************************************************)
t_dashes      == <<"-","-">>
t_unavailable == <<"-","-"," ","F","u","n","c","t","i","o","n"," ","n","o","t"," ","a","v","a","i","l","a","b","l","e">>
t_error       == <<"-","-"," ","E","r","r","o","r",":"," ","b","o","o","m">>
t_comment     == <<"-","-"," ","n","o"," ","a","n","s","w","e","r">>
q_blank       == <<" "," ">>
sql_blank     == <<" ">>

\* str.strip() of blanks at both ends
RECURSIVE LStrip(_)
LStrip(s) == IF s # <<>> /\ Head(s) = " " THEN LStrip(Tail(s)) ELSE s

RECURSIVE RStrip(_)
RStrip(s) ==
    IF s # <<>> /\ s[Len(s)] = " " THEN RStrip(SubSeq(s, 1, Len(s) - 1)) ELSE s

Strip(s) == RStrip(LStrip(s))

\* str.startswith
StartsWith(s, prefix) ==
    Len(s) >= Len(prefix) /\ SubSeq(s, 1, Len(prefix)) = prefix

(***************************************************************************)
(* What the functions of the notebook do when called is not in this        *)
(* repository: a call of the generate function returns a string, a tuple   *)
(* or a dict, or raises; an execution returns rows or raises.              *)
(***************************************************************************)
GenTexts == {sql_empty, sql_blank, sql_payment, t_comment}

GenOutcomes ==
    {[kind |-> k, sql |-> t] : k \in {"str", "tuple", "dict"}, t \in GenTexts}
    \cup {[kind |-> "dict_without_sql", sql |-> <<>>], [kind |-> "raise", sql |-> <<>>]}

\* pd.DataFrame([]): no rows and no columns
NoFrame == [nrows |-> 0, cols |-> <<>>]

ExecFrames ==
    { NoFrame,
      MakeDF({2, 7, 9, 10}, FALSE, MaxRows),
      MakeDF({3, 7}, FALSE, 5),
      MakeDF({1}, FALSE, 1) }

ExecOutcomes == {[kind |-> "rows", df |-> d] : d \in ExecFrames} \cup
                {[kind |-> "raise", df |-> NoFrame]}

AppQuestions == {q_blank, q_late, q_price}
EditorSqls   == {sql_empty, sql_blank, sql_payment}
TableNames   == {"", "orders", "payments"}

\* NotebookBridge.generate_sql: the dict it returns, as its "sql" entry
\* (absent: "") and what happened
BridgeGenerateSql(bridge, outcome) ==
    IF FindCallable(bridge.ns, MappingGet(bridge.mapping, "generate_sql")) = ""
    THEN [sql |-> t_unavailable, cause |-> "unavailable"]
    ELSE IF outcome.kind = "raise" THEN [sql |-> t_error, cause |-> "raised"]
    ELSE IF outcome.kind = "dict_without_sql" THEN [sql |-> <<>>, cause |-> "returned"]
    ELSE [sql |-> outcome.sql, cause |-> "returned"]

\* NL2SQLAdapters.question_to_sql: sql = out.get("sql", ""), success = bool(sql)
QuestionToSql(bridge, outcome) ==
    LET out == BridgeGenerateSql(bridge, outcome)
    IN  [sql |-> out.sql, success |-> (out.sql # <<>>), cause |-> out.cause]

\* NotebookBridge.execute_sql: rows come from the notebook's conn only; the
\* execute function itself yields no rows
BridgeExecuteSql(bridge, outcome) ==
    IF FindCallable(bridge.ns, MappingGet(bridge.mapping, "execute_sql")) = ""
    THEN [error |-> FALSE, rows |-> NoFrame]
    ELSE IF outcome.kind = "raise" THEN [error |-> TRUE, rows |-> NoFrame]
    ELSE IF "conn" \in bridge.ns.values THEN [error |-> FALSE, rows |-> outcome.df]
    ELSE [error |-> FALSE, rows |-> NoFrame]

\* NL2SQLAdapters.execute_sql
AdapterExecuteSql(bridge, outcome) ==
    LET out == BridgeExecuteSql(bridge, outcome)
    IN  IF out.error THEN [success |-> FALSE, rows |-> NoFrame]
        ELSE [success |-> TRUE, rows |-> out.rows]

(***************************************************************************)
(* The application (app.py): the global adapter, the handlers of the       *)
(* buttons, and the history kept in the session state.  Handlers run one   *)
(* at a time.                                                              *)
(***************************************************************************)
MaxClock == 6

\* adapter = None
NoAdapter ==
    [set |-> FALSE, id |-> 0,
     bridge |-> [ns |-> EmptyNamespace, tier |-> "", mapping |-> FUNCTION_MAP]]

\* what get_adapter did: the adapter it leaves in the global, whether it
\* raised, how often NL2SQLAdapters was constructed with success so far (n),
\* and how often the constructor ran in this call
Got(a, raised, n, loads) == [adapter |-> a, raised |-> raised, n |-> n, loads |-> loads]

\* a plausible slip: no test of the global, a new adapter on every call
GetAdapter_AlwaysNew(a, e, n) ==
    LET b == Load(e)
    IN  IF b.outcome = "ok"
        THEN Got([set |-> TRUE, id |-> n + 1,
                  bridge |-> [ns |-> b.ns, tier |-> b.tier, mapping |-> e.mapping]],
                 FALSE, n + 1, 1)
        ELSE Got(a, TRUE, n, 1)

\* get_adapter, with NL2SQLAdapters.__init__ and NotebookBridge.__init__
GetAdapter(a, e, n) ==
    IF a.set THEN Got(a, FALSE, n, 0)
    ELSE LET b == Load(e)
         IN  IF b.outcome = "ok"
             THEN Got([set |-> TRUE, id |-> n + 1,
                       bridge |-> [ns |-> b.ns, tier |-> b.tier, mapping |-> e.mapping]],
                      FALSE, n + 1, 1)
             ELSE Got(a, TRUE, n, 1)

\* generate_sql of app.py: the SQL and details it returns, why, and the
\* adapter after it
GenerateSql(a, e, n, q, outcome) ==
    LET got == GetAdapter(a, e, n)
    IN  IF got.raised
        THEN [sql |-> <<>>, details |-> "Initialization failed", cause |-> "init_failed",
              got |-> got]
        ELSE IF Strip(q) = <<>>
        THEN [sql |-> <<>>, details |-> "Enter a question", cause |-> "blank", got |-> got]
        ELSE LET r == QuestionToSql(got.adapter.bridge, outcome)
             IN  [sql |-> r.sql, details |-> IF r.success THEN "Time" ELSE "Failed",
                  cause |-> r.cause, got |-> got]

\* execute_sql of app.py: the table, the metrics and the error it returns,
\* whether the SQL went to the bridge, and the adapter after it
ExecuteSql(a, e, n, s, outcome) ==
    LET got == GetAdapter(a, e, n)
    IN  IF got.raised
        THEN [df |-> NoFrame, metrics |-> "", err |-> "Initialization failed",
              executed |-> FALSE, got |-> got]
        ELSE IF Strip(s) = <<>>
        THEN [df |-> NoFrame, metrics |-> "", err |-> "No SQL", executed |-> FALSE,
              got |-> got]
        ELSE LET r == AdapterExecuteSql(got.adapter.bridge, outcome)
             IN  IF r.success
                 THEN [df |-> r.rows, metrics |-> "Rows", err |-> "", executed |-> TRUE,
                       got |-> got]
                 ELSE [df |-> NoFrame, metrics |-> "", err |-> "Error", executed |-> TRUE,
                       got |-> got]

\* a plausible slip: only an empty SQL text ends run_with_results early
StopsAfterGenerate_EmptyOnly(s) == s = <<>>

\* not sql or sql.startswith("--")
StopsAfterGenerate(s) == s = <<>> \/ StartsWith(s, t_dashes)

NoInsights == [tiles |-> <<>>, narrative |-> <<>>]

\* the values a handler returns, with the defaults of the values it lacks
Outputs(s, d, details, insights_html, chart1, chart2, tables) ==
    [sql |-> s, df |-> d, details |-> details, insights_html |-> insights_html,
     chart1 |-> chart1, chart2 |-> chart2, tables |-> tables]

NoOutputs == Outputs(<<>>, NoFrame, "", NoInsights, <<>>, <<>>, <<>>)

\* what a handler call did: how often it called get_adapter, how often the
\* constructor ran and whether it raised, how SQL generation ended, whether
\* SQL went to the bridge for execution, whether the engine was called
Did(handler, gets, loads, load_raised, cause, executed, analyzed) ==
    [handler |-> handler, gets |-> gets, loads |-> loads, load_raised |-> load_raised,
     cause |-> cause, executed |-> executed, analyzed |-> analyzed]

NoHandlerYet == Did("none", 0, 0, FALSE, "none", FALSE, FALSE)

\* the KPI tiles of the insights panel: icon, value and label of each metric
Tiles(kpis) ==
    [i \in 1..Len(kpis) |->
        [icon |-> kpis[i].icon, value |-> kpis[i].value, label |-> kpis[i].metric]]

\* NL2SQLAdapters.get_schema_overview: the cache after the call, sv being
\* what the bridge's schema_overview returns
SchemaOverview(cache, sv) ==
    IF cache.set THEN cache ELSE [set |-> TRUE, value |-> sv]

\* add_history: h.append(...), with now the value of datetime.now()
AddHistory(h, q, s, status, now) ==
    Append(h, [timestamp |-> now, question |-> q, sql |-> s, status |-> status])

\* format_history: "*No history*", or one line per entry, the latest first
FormatHistory(h) ==
    IF h = <<>> THEN [text |-> "*No history*", lines |-> <<>>]
    ELSE [text |-> "",
          lines |-> [i \in 1..Len(h) |->
                        [n |-> i, timestamp |-> h[Len(h) + 1 - i].timestamp,
                         question |-> h[Len(h) + 1 - i].question]]]

SaveSqls == {sql_empty, sql_payment}

(***************************************************************************)
(* InsightsEngine.run                                                      *)
(***************************************************************************)
VARIABLES
    schema,       \* self.schema, set by __init__
    question,     \* the arguments of the call of run
    sql,
    df,
    pc,           \* "call", "loop", "done" (returned) or "raised"
    blocks,       \* the blocks _infer_blocks returned
    bi,           \* the position of the for loop in blocks
    kpis_list,    \* the accumulators of run
    narratives,
    charts,
    derivations,
    artifact,     \* the InsightArtifacts returned, once pc = "done"
    invoked,      \* the engine methods this call of run has called, in order
    calls,        \* the number of calls of run on this engine, this one included
    first         \* the arguments and the outcome of the engine's first call

enginevars == <<schema, question, sql, df, pc, blocks, bi, kpis_list, narratives,
                charts, derivations, artifact, invoked, calls, first>>

VARIABLES
    env,             \* the files and the function mapping the bridge finds
    adapter,         \* the global adapter of app.py
    schema_cache,    \* the adapter's _schema_cache
    constructions,   \* how often NL2SQLAdapters was constructed with success
    app_pc,          \* "idle", or "analyzing" inside run_with_results
    out,             \* what the last handler returned to its output components
    last,            \* what the last handler call did
    history,         \* history_state
    history_display, \* the History tab's markdown
    clock,           \* datetime.now(), counted in calls
    saves            \* the "Save to History" clicks since the last "Clear"

appvars == <<env, adapter, schema_cache, constructions, app_pc, out, last,
             history, history_display, clock, saves>>

historyvars == <<history, history_display, clock, saves>>

vars == <<enginevars, appvars>>

\* InsightsEngine.__init__ with no schema given: global_schema or {}
EmptySchema == <<>>

NoArtifact ==
    [kpis |-> <<>>, narrative |-> <<>>, charts |-> <<>>, derivation |-> <<>>]

\* no call of run has finished yet
NoCall ==
    [question |-> <<>>, sql |-> <<>>, df |-> [nrows |-> 0, cols |-> <<>>],
     pc |-> "call", artifact |-> NoArtifact]

EmptyArtifact ==
    [kpis       |-> <<>>,
     narrative  |-> <<Line("*No data returned to analyze.*", <<>>)>>,
     charts     |-> <<>>,
     derivation |-> <<"Empty result set">>]

\* self._schema_cache = None
NoCache == [set |-> FALSE, value |-> EmptySchema]

\* app.py at import, and a new session
AppStart ==
    /\ adapter = NoAdapter
    /\ schema_cache = NoCache
    /\ constructions = 0
    /\ app_pc = "idle"      \* no handler is running
    /\ out = NoOutputs
    /\ last = NoHandlerYet
    /\ history = <<>>
    /\ history_display = FormatHistory(<<>>)
    /\ clock = 0
    /\ saves = 0

Init ==
    /\ schema = EmptySchema
    /\ df \in DataFrames
    /\ question \in Questions
    /\ sql \in Sqls
    /\ pc = "call"
    /\ blocks = <<>>
    /\ bi = 1
    /\ kpis_list = <<>>
    /\ narratives = <<>>
    /\ charts = <<>>
    /\ derivations = <<>>
    /\ artifact = NoArtifact
    /\ invoked = <<>>
    /\ calls = 1
    /\ first = NoCall
    /\ env = DefaultEnvironment
    /\ AppStart

\* a plausible slip: an accumulator that outlives the call (a list kept on
\* the engine, or a mutable default argument)
NewList_Kept(old) == old

\* name = []  (lines 41-44): a new empty list, whatever the name held before
NewList(old) == <<>>

\* run, lines 31-44: the empty short-circuit, else the selection of blocks
RunEntry ==
    /\ pc = "call"
    /\ IF IsEmpty(df)
       THEN /\ artifact' = EmptyArtifact
            /\ pc' = "done"
            /\ UNCHANGED <<blocks, invoked, bi, kpis_list, narratives,
                           charts, derivations>>
       ELSE /\ blocks' = InferBlocks(question, sql, df)
            /\ invoked' = Append(invoked, "_infer_blocks")
            /\ kpis_list' = NewList(kpis_list)
            /\ narratives' = NewList(narratives)
            /\ charts' = NewList(charts)
            /\ derivations' = NewList(derivations)
            /\ bi' = 1
            /\ pc' = "loop"
            /\ UNCHANGED artifact
    /\ UNCHANGED <<schema, question, sql, df, calls, first, appvars>>

\* run, lines 46-55: one iteration of the loop over the selected blocks
RunBlock ==
    /\ pc = "loop"
    /\ bi <= Len(blocks)
    /\ LET result == RunBlockOf(blocks[bi], df)
       IN  /\ invoked' = Append(invoked, blocks[bi])
           /\ IF result.kind = "raise"
              THEN /\ pc' = "raised"
                   /\ UNCHANGED <<bi, kpis_list, narratives, charts, derivations>>
              ELSE /\ pc' = "loop"
                   /\ bi' = bi + 1
                   /\ IF result.kind = "dict"
                      THEN /\ kpis_list' = kpis_list \o result.kpis
                           /\ narratives' = IF result.narrative # <<>>
                                            THEN Append(narratives, result.narrative)
                                            ELSE narratives
                           /\ charts' = charts \o result.chart
                           /\ derivations' = IF result.derivation # ""
                                             THEN Append(derivations, <<result.derivation>>)
                                             ELSE derivations
                      ELSE UNCHANGED <<kpis_list, narratives, charts, derivations>>
    /\ UNCHANGED <<schema, question, sql, df, blocks, artifact, calls, first,
                   appvars>>

\* a plausible slip: charts[-2:], the last two charts
FirstCharts_LastTwo(cs) ==
    SubSeq(cs, IF Len(cs) > MaxCharts THEN Len(cs) - MaxCharts + 1 ELSE 1, Len(cs))

\* charts[:2]
FirstCharts(cs) == SubSeq(cs, 1, IF Len(cs) < MaxCharts THEN Len(cs) ELSE MaxCharts)

\* " -> ".join(derivations) if derivations else "Generic analysis"
\* (the separator stands for the arrow U+2192 between two spaces)
DerivationText(ds) ==
    IF ds # <<>> THEN Join(" -> ", ds) ELSE <<"Generic analysis">>

\* run, lines 57-71: the generic fallback and the artifact returned
RunFinish ==
    /\ pc = "loop"
    /\ bi > Len(blocks)
    /\ LET fallback == kpis_list = <<>>
           generic  == GenericStats(df)
           kpis_out == IF fallback THEN generic.kpis ELSE kpis_list
           narr_out == IF fallback THEN Append(narratives, generic.narrative)
                       ELSE narratives
       IN  /\ invoked' = IF fallback THEN Append(invoked, "_generic_stats") ELSE invoked
           /\ kpis_list' = kpis_out
           /\ narratives' = narr_out
           /\ artifact' = [kpis       |-> kpis_out,
                           narrative  |-> Join(BlankLine, narr_out),
                           charts     |-> FirstCharts(charts),
                           derivation |-> DerivationText(derivations)]
    /\ pc' = "done"
    /\ UNCHANGED <<schema, question, sql, df, blocks, bi, charts, derivations,
                   calls, first, appvars>>

Next == RunEntry \/ RunBlock \/ RunFinish

Spec == Init /\ [][Next]_vars

(***************************************************************************)
(* Several calls of run on one engine.  The names local to run keep, until *)
(* run assigns them, whatever the previous call left in them.              *)
(***************************************************************************)
MaxCalls == 3

\* self.schema = global_schema or {}
Schemas == {EmptySchema, <<"orders", "customers">>}

CallQuestions == {q_late, q_price}
CallSqls      == {sql_empty, sql_feedback}
CallFrames ==
    { MakeDF({2, 7, 9, 10}, FALSE, 0),          \* no rows
      MakeDF({2, 7, 9, 10}, FALSE, MaxRows),    \* every block has output
      MakeDF({3}, FALSE, 1),                    \* Is_Late (text), one row
      MakeDF({3, 7}, FALSE, 5),                 \* Is_Late (text) and state
      MakeDF({1}, FALSE, 5) }                   \* id only

InitCalls ==
    /\ schema \in Schemas
    /\ df \in CallFrames
    /\ question \in CallQuestions
    /\ sql \in CallSqls
    /\ pc = "call"
    /\ blocks = <<>>
    /\ bi = 1
    /\ kpis_list = <<>>
    /\ narratives = <<>>
    /\ charts = <<>>
    /\ derivations = <<>>
    /\ artifact = NoArtifact
    /\ invoked = <<>>
    /\ calls = 1
    /\ first = NoCall
    /\ env = DefaultEnvironment
    /\ AppStart

\* a further call of run on the same engine, after the previous one has
\* returned or raised
RunAgain ==
    /\ pc \in {"done", "raised"}
    /\ calls < MaxCalls
    /\ \E d \in CallFrames, q \in CallQuestions, s \in CallSqls :
            /\ df' = d
            /\ question' = q
            /\ sql' = s
    /\ first' = IF calls = 1
                THEN [question |-> question, sql |-> sql, df |-> df,
                      pc |-> pc, artifact |-> artifact]
                ELSE first
    /\ calls' = calls + 1
    /\ pc' = "call"
    /\ artifact' = NoArtifact
    /\ invoked' = <<>>
    /\ UNCHANGED <<schema, blocks, bi, kpis_list, narratives, charts, derivations,
                   appvars>>

NextCalls == RunEntry \/ RunBlock \/ RunFinish \/ RunAgain

SpecCalls == InitCalls /\ [][NextCalls]_vars

(***************************************************************************)
(* The handlers of the application.  run_with_results calls                *)
(* InsightsEngine.run on a new engine, whose steps are the actions above.  *)
(***************************************************************************)
\* no call of run is under way
EngineIdle ==
    /\ schema = EmptySchema
    /\ question = <<>>
    /\ sql = <<>>
    /\ df = NoFrame
    /\ pc = "idle"
    /\ blocks = <<>>
    /\ bi = 1
    /\ kpis_list = <<>>
    /\ narratives = <<>>
    /\ charts = <<>>
    /\ derivations = <<>>
    /\ artifact = NoArtifact
    /\ invoked = <<>>
    /\ calls = 1
    /\ first = NoCall

InitApp ==
    /\ EngineIdle
    /\ AppStart
    /\ env \in Environments

\* generate_btn.click: generate_sql
GenerateSqlClick ==
    /\ app_pc = "idle"
    /\ \E q \in AppQuestions, o \in GenOutcomes :
          LET g == GenerateSql(adapter, env, constructions, q, o)
          IN  /\ adapter' = g.got.adapter
              /\ constructions' = g.got.n
              /\ out' = Outputs(g.sql, NoFrame, g.details, NoInsights, <<>>, <<>>, <<>>)
              /\ last' = Did("generate_sql", 1, g.got.loads, g.got.raised, g.cause,
                             FALSE, FALSE)
    /\ UNCHANGED <<env, schema_cache, app_pc, historyvars, enginevars>>

\* run_editor_btn.click: execute_sql
ExecuteSqlClick ==
    /\ app_pc = "idle"
    /\ \E s \in EditorSqls, x \in ExecOutcomes :
          LET e == ExecuteSql(adapter, env, constructions, s, x)
          IN  /\ adapter' = e.got.adapter
              /\ constructions' = e.got.n
              /\ out' = Outputs(<<>>, e.df, IF e.err # "" THEN e.err ELSE e.metrics,
                                NoInsights, <<>>, <<>>, <<>>)
              /\ last' = Did("execute_sql", 1, e.got.loads, e.got.raised, "none",
                             e.executed, FALSE)
    /\ UNCHANGED <<env, schema_cache, app_pc, historyvars, enginevars>>

\* run_btn.click: run_with_results, lines 50-52: generate_sql, and the early
\* return; otherwise the question and the SQL are kept for the next steps
RunWithResultsClick ==
    /\ app_pc = "idle"
    /\ \E q \in AppQuestions, o \in GenOutcomes :
          LET g == GenerateSql(adapter, env, constructions, q, o)
          IN  /\ adapter' = g.got.adapter
              /\ constructions' = g.got.n
              /\ out' = Outputs(g.sql, NoFrame, g.details, NoInsights, <<>>, <<>>, <<>>)
              /\ last' = Did("run_with_results", 1, g.got.loads, g.got.raised,
                             g.cause, FALSE, FALSE)
              /\ IF StopsAfterGenerate(g.sql)
                 THEN UNCHANGED <<app_pc, question, sql>>
                 ELSE /\ app_pc' = "generated"
                      /\ question' = q
                      /\ sql' = g.sql
    /\ UNCHANGED <<env, schema_cache, historyvars, schema, df, pc, blocks, bi,
                   kpis_list, narratives, charts, derivations, artifact, invoked,
                   calls, first>>

\* run_with_results, lines 54-59: execute_sql, and the return without
\* insights when the table is empty
RunWithResultsExecute ==
    /\ app_pc = "generated"
    /\ \E x \in ExecOutcomes :
          LET e == ExecuteSql(adapter, env, constructions, sql, x)
          IN  /\ adapter' = e.got.adapter
              /\ constructions' = e.got.n
              /\ out' = [out EXCEPT !.df = e.df, !.details = "combined"]
              /\ last' = [last EXCEPT !.gets = @ + 1, !.loads = @ + e.got.loads,
                                      !.load_raised = e.got.raised,
                                      !.executed = e.executed]
              /\ IF IsEmpty(e.df)
                 THEN /\ app_pc' = "idle"
                      /\ question' = <<>>
                      /\ sql' = <<>>
                      /\ UNCHANGED df
                 ELSE /\ app_pc' = "executed"
                      /\ df' = e.df
                      /\ UNCHANGED <<question, sql>>
    /\ UNCHANGED <<env, schema_cache, historyvars, schema, pc, blocks, bi,
                   kpis_list, narratives, charts, derivations, artifact, invoked,
                   calls, first>>

\* run_with_results, lines 60-62: get_adapter, then analyze_results, which
\* builds a new engine on the schema overview and calls its run
RunWithResultsAnalyze ==
    /\ app_pc = "executed"
    /\ \E sv \in Schemas :
          LET got   == GetAdapter(adapter, env, constructions)
              cache == SchemaOverview(schema_cache, sv)
          IN  /\ adapter' = got.adapter
              /\ constructions' = got.n
              /\ last' = [last EXCEPT !.gets = @ + 1, !.loads = @ + got.loads,
                                      !.load_raised = got.raised,
                                      !.analyzed = ~got.raised]
              /\ IF got.raised
                 THEN /\ app_pc' = "idle"
                      /\ question' = <<>>
                      /\ sql' = <<>>
                      /\ df' = NoFrame
                      /\ UNCHANGED <<schema_cache, schema, pc>>
                 ELSE /\ app_pc' = "analyzing"
                      /\ schema_cache' = cache
                      /\ schema' = cache.value
                      /\ pc' = "call"
                      /\ UNCHANGED <<question, sql, df>>
    /\ UNCHANGED <<env, out, historyvars, blocks, bi, kpis_list, narratives,
                   charts, derivations, artifact, invoked, calls, first>>

\* run_with_results, lines 63-75, once InsightsEngine.run has returned or
\* raised (except: pass); the engine of the call is dropped
RunWithResultsReturn ==
    /\ app_pc = "analyzing"
    /\ pc \in {"done", "raised"}
    /\ out' = IF pc = "raised" THEN out
              ELSE [out EXCEPT
                      !.insights_html =
                          IF artifact.kpis # <<>>
                          THEN [tiles |-> Tiles(artifact.kpis),
                                narrative |-> artifact.narrative]
                          ELSE NoInsights,
                      !.chart1 = IF Len(artifact.charts) > 0
                                 THEN <<artifact.charts[1]>> ELSE <<>>,
                      !.chart2 = IF Len(artifact.charts) > 1
                                 THEN <<artifact.charts[2]>> ELSE <<>>]
    /\ app_pc' = "idle"
    /\ schema' = EmptySchema
    /\ question' = <<>>
    /\ sql' = <<>>
    /\ df' = NoFrame
    /\ pc' = "idle"
    /\ blocks' = <<>>
    /\ bi' = 1
    /\ kpis_list' = <<>>
    /\ narratives' = <<>>
    /\ charts' = <<>>
    /\ derivations' = <<>>
    /\ artifact' = NoArtifact
    /\ invoked' = <<>>
    /\ UNCHANGED <<env, adapter, schema_cache, constructions, last, historyvars,
                   calls, first>>

\* refresh_schema_btn.click: load_tables
LoadTablesClick ==
    /\ app_pc = "idle"
    /\ \E sv \in Schemas :
          LET got   == GetAdapter(adapter, env, constructions)
              cache == SchemaOverview(schema_cache, sv)
          IN  /\ adapter' = got.adapter
              /\ constructions' = got.n
              /\ schema_cache' = IF got.raised THEN schema_cache ELSE cache
              /\ out' = Outputs(<<>>, NoFrame, "", NoInsights, <<>>, <<>>,
                                IF got.raised THEN <<>> ELSE cache.value)
              /\ last' = Did("load_tables", 1, got.loads, got.raised, "none",
                             FALSE, FALSE)
    /\ UNCHANGED <<env, app_pc, historyvars, enginevars>>

\* tables_dropdown.change: load_table_details
LoadTableDetailsClick ==
    /\ app_pc = "idle"
    /\ \E name \in TableNames, sv \in Schemas :
          LET got   == GetAdapter(adapter, env, constructions)
              cache == SchemaOverview(schema_cache, sv)
          IN  IF name = ""
              THEN /\ out' = NoOutputs
                   /\ last' = Did("load_table_details", 0, 0, FALSE, "none",
                                  FALSE, FALSE)
                   /\ UNCHANGED <<adapter, constructions, schema_cache>>
              ELSE /\ adapter' = got.adapter
                   /\ constructions' = got.n
                   /\ schema_cache' = IF got.raised THEN schema_cache ELSE cache
                   /\ out' = Outputs(<<>>, NoFrame,
                                     IF got.raised THEN "Failed to load"
                                     ELSE IF \E i \in 1..Len(cache.value) : cache.value[i] = name
                                     THEN "Table" ELSE "Not found",
                                     NoInsights, <<>>, <<>>, <<>>)
                   /\ last' = Did("load_table_details", 1, got.loads, got.raised,
                                  "none", FALSE, FALSE)
    /\ UNCHANGED <<env, app_pc, historyvars, enginevars>>

\* between two calls of get_adapter the files that _load tests with exists()
\* may be written or removed, and config.yaml may change
FilesChange ==
    /\ \E e \in Environments \ {env} : env' = e
    /\ UNCHANGED <<adapter, schema_cache, constructions, app_pc, out, last,
                   historyvars, enginevars>>

NextApp ==
    \/ FilesChange
    \/ GenerateSqlClick
    \/ ExecuteSqlClick
    \/ RunWithResultsClick
    \/ RunWithResultsExecute
    \/ RunWithResultsAnalyze
    \/ RunEntry
    \/ RunBlock
    \/ RunFinish
    \/ RunWithResultsReturn
    \/ LoadTablesClick
    \/ LoadTableDetailsClick

SpecApp == InitApp /\ [][NextApp]_vars

(***************************************************************************)
(* The history of the session                                              *)
(***************************************************************************)
InitHistory ==
    /\ EngineIdle
    /\ AppStart
    /\ env = DefaultEnvironment

\* save_history_btn.click: the lambda calls add_history once for each of its
\* two output values, on the same list
SaveHistoryClick ==
    /\ app_pc = "idle"
    /\ clock + 2 <= MaxClock
    /\ \E q \in AppQuestions, s \in SaveSqls :
          LET h1 == AddHistory(history, q, s, "success", clock + 1)
              h2 == AddHistory(h1, q, s, "success", clock + 2)
          IN  /\ history' = h2
              /\ history_display' = FormatHistory(h2)
    /\ clock' = clock + 2
    /\ saves' = saves + 1
    /\ UNCHANGED <<env, adapter, schema_cache, constructions, app_pc, out, last,
                   enginevars>>

\* clear_history_btn.click
ClearHistoryClick ==
    /\ app_pc = "idle"
    /\ history' = <<>>
    /\ history_display' = FormatHistory(<<>>)
    /\ saves' = 0
    /\ UNCHANGED <<env, adapter, schema_cache, constructions, app_pc, out, last,
                   clock, enginevars>>

NextHistory == SaveHistoryClick \/ ClearHistoryClick

SpecHistory == InitHistory /\ [][NextHistory]_vars

(***************************************************************************)
(* Properties                                                              *)
(***************************************************************************)
Returned == pc = "done"

Range(seq) == {seq[i] : i \in 1..Len(seq)}

\* the labels of the tiles of the artifact, in order
Metrics(a) == [i \in 1..Len(a.kpis) |-> a.kpis[i].metric]

\* the number shown by the tile of the artifact at position i
Shown(a, i) == a.kpis[i].value.digits

\* C1 (as stated): for every result set with zero rows, run returns an
\* artifact with no metrics, narrative exactly "No data returned to analyze.",
\* no charts and derivation "Empty result set", and calls neither the
\* selector nor a block nor the generic fallback.
C1_EmptyAsStated ==
    NRows(df) = 0 =>
        /\ pc \in {"call", "done"}
        /\ Returned =>
            /\ artifact.kpis = <<>>
            /\ artifact.narrative = <<Line("No data returned to analyze.", <<>>)>>
            /\ artifact.charts = <<>>
            /\ artifact.derivation = <<"Empty result set">>
            /\ invoked = <<>>

\* C1 (amended): as C1, with the narrative the code returns, which is the
\* sentence wrapped in markdown emphasis: "*No data returned to analyze.*".
C1_EmptyResultSet ==
    NRows(df) = 0 =>
        /\ pc \in {"call", "done"}
        /\ Returned =>
            /\ artifact.kpis = <<>>
            /\ artifact.narrative = <<Line("*No data returned to analyze.*", <<>>)>>
            /\ artifact.charts = <<>>
            /\ artifact.derivation = <<"Empty result set">>
            /\ invoked = <<>>

\* an empty result set with marker columns and matching keywords has returned
C1_Witness ==
    /\ Returned
    /\ NRows(df) = 0
    /\ KeywordHit(question, sql, kw_delivery)
    /\ AnyTrue([k \in 1..NCols(df) |-> IsDeliveryMarker(LowerCols(df)[k])])

C2_Markers ==
    {s_delivery, s_late, s_payment, s_price, s_value, s_revenue,
     s_review, s_score, s_rating}

C2_NoMarkerColumn ==
    \A k \in 1..NCols(df) : \A m \in C2_Markers : ~Contains(Lower(df.cols[k].name), m)

C2_NumericCount ==
    Cardinality({k \in 1..NCols(df) : df.cols[k].dtype \in {"int64", "float64"}})

\* C2: for every non-empty result set none of whose column names contains a
\* block marker, whatever the question and SQL, run returns the generic
\* fallback: tiles "Rows Returned" = row count, "Columns" = column count,
\* then "Numeric Fields" (= their number) iff some column is numeric.
C2_GenericFallback ==
    (NRows(df) > 0 /\ C2_NoMarkerColumn) =>
        /\ pc # "raised"
        /\ Returned =>
            /\ Metrics(artifact) =
                   IF C2_NumericCount > 0
                   THEN <<"Rows Returned", "Columns", "Numeric Fields">>
                   ELSE <<"Rows Returned", "Columns">>
            /\ Shown(artifact, 1) = NRows(df)
            /\ Shown(artifact, 2) = NCols(df)
            /\ C2_NumericCount > 0 => Shown(artifact, 3) = C2_NumericCount
            /\ invoked = <<"_infer_blocks", "_generic_stats">>

\* a result set of a text column only, asked about with keywords, has returned
C2_Witness ==
    /\ Returned
    /\ NRows(df) > 0
    /\ C2_NoMarkerColumn
    /\ C2_NumericCount = 0
    /\ KeywordHit(question, sql, kw_payment)

\* C3: the artifact never has more than 2 charts, and when all three blocks
\* produced a chart the artifact keeps the delivery chart and the payment
\* chart, in that order.
C3_ChartCap ==
    Returned =>
        /\ Len(artifact.charts) <= 2
        /\ Len(charts) <= 2 => artifact.charts = charts
        /\ Len(charts) > 2 =>
              /\ artifact.charts = <<charts[1], charts[2]>>
              /\ artifact.charts[1].title = "Late Delivery Rate by State"
              /\ artifact.charts[2].title = "Top 10 by {}"

\* all three blocks produced a chart
C3_Witness == Returned /\ Len(charts) = 3

\* the selection criteria of a block kind, as the design states them
KindKeywords(kind) ==
    CASE kind = "delivery" -> kw_delivery
      [] kind = "payment"  -> kw_payment
      [] kind = "review"   -> kw_review

KindColumnMarkers(kind) ==
    CASE kind = "delivery" -> {s_delivery, s_late}
      [] kind = "payment"  -> {s_payment, s_price, s_value, s_revenue}
      [] kind = "review"   -> {s_review, s_score, s_rating}

KindApplies(kind) ==
    /\ \E i \in 1..Len(KindKeywords(kind)) :
          \/ Contains(Lower(question), KindKeywords(kind)[i])
          \/ Contains(Lower(sql), KindKeywords(kind)[i])
    /\ \E k \in 1..NCols(df) : \E m \in KindColumnMarkers(kind) :
          Contains(Lower(df.cols[k].name), m)

\* what the block of a kind contributes on the inputs: its result if the
\* selection criteria of the kind hold, nothing otherwise
C4_Part(kind) ==
    IF KindApplies(kind) THEN RunBlockOf(kind, df) ELSE NoneResult

C4_Fragment(part) == IF part.narrative # <<>> THEN <<part.narrative>> ELSE <<>>

\* C4: for a non-empty result set on which the selected blocks produce
\* metrics, the metrics of the artifact are the delivery, payment and review
\* metrics concatenated in that order, and its narrative is their non-empty
\* narrative fragments in that order with one blank line between two
\* fragments.
C4_FixedOrderMerge ==
    (Returned /\ NRows(df) > 0) =>
        LET d == C4_Part("delivery")
            p == C4_Part("payment")
            r == C4_Part("review")
        IN  d.kpis \o p.kpis \o r.kpis # <<>> =>
              /\ artifact.kpis = d.kpis \o p.kpis \o r.kpis
              /\ artifact.narrative =
                    Join(BlankLine, C4_Fragment(d) \o C4_Fragment(p) \o C4_Fragment(r))

\* delivery and payment (at least) both contributed metrics and narrative;
\* the payment column comes first in the result set
C4_Witness ==
    /\ Returned
    /\ Len(artifact.kpis) >= 4
    /\ artifact.kpis[1].metric = "Late Delivery Rate"
    /\ artifact.kpis[3].metric = "Total Value"
    /\ Len(narratives) >= 2
    /\ IsValueCol(df.cols[1])

\* C5: once the selector has run, a kind is among the selected blocks iff one
\* of its keywords occurs in the lower-cased question or SQL and one
\* lower-cased column name contains one of its markers; each kind is decided
\* alone, and the selected kinds are in the order delivery, payment, review.
C5_Selection ==
    (pc \in {"loop", "done", "raised"} /\ ~(NRows(df) = 0)) =>
        /\ \A kind \in {"delivery", "payment", "review"} :
              kind \in Range(blocks) <=> KindApplies(kind)
        /\ blocks = (IF KindApplies("delivery") THEN <<"delivery">> ELSE <<>>)
                 \o (IF KindApplies("payment")  THEN <<"payment">>  ELSE <<>>)
                 \o (IF KindApplies("review")   THEN <<"review">>   ELSE <<>>)

\* delivery and review are selected and payment is not, though the payment
\* keyword is there: the decision for payment did not follow the other two
C5_Witness ==
    /\ pc = "loop"
    /\ blocks = <<"delivery", "review">>
    /\ KeywordHit(question, sql, kw_payment)

HasRun(kind) == kind \in Range(invoked)

\* the metrics the selected blocks produce on the inputs are empty
C6_NoBlockMetrics ==
    \A kind \in {"delivery", "payment", "review"} :
        KindApplies(kind) => RunBlockOf(kind, df).kpis = <<>>

C6_GenericLabels == {"Rows Returned", "Columns", "Numeric Fields"}

\* C6: for every non-empty result set, run does not raise, and the artifact
\* it returns has metrics; the generic fallback runs exactly when the
\* selected blocks produced no metric, and its tiles never stand beside a
\* block's tiles.
C6_AlwaysAnArtifact ==
    NRows(df) > 0 =>
        /\ pc # "raised"
        /\ Returned =>
              /\ artifact.kpis # <<>>
              /\ HasRun("_generic_stats") <=> C6_NoBlockMetrics
              /\ \/ Range(Metrics(artifact)) \subseteq C6_GenericLabels
                 \/ Range(Metrics(artifact)) \cap C6_GenericLabels = {}

\* the column a block picks by name, 0 when there is none
C7_Candidate(kind) ==
    CASE kind = "delivery" -> LateColIndex(df)
      [] kind = "payment"  -> ValueColIndex(df)
      [] kind = "review"   -> ScoreColIndex(df)

C7_Label(kind) ==
    CASE kind = "delivery" -> "Delivery analysis"
      [] kind = "payment"  -> "Payment analysis"
      [] kind = "review"   -> "Review analysis"

C7_Tiles(kind) ==
    CASE kind = "delivery" -> {"Late Delivery Rate", "Late Deliveries"}
      [] kind = "payment"  -> {"Total Value", "Average"}
      [] kind = "review"   -> {"Avg Review Score", "High Ratings (4-5)"}

\* C7: when the column a block picks by name holds text, the block, once
\* run, has contributed nothing: no tile, no derivation label; and run has
\* not raised.
C7_TypeMismatchIsNoMatch ==
    \A kind \in {"delivery", "payment", "review"} :
        (/\ HasRun(kind)
         /\ C7_Candidate(kind) # 0
         /\ df.cols[C7_Candidate(kind)].dtype = "object") =>
            /\ pc # "raised"
            /\ <<C7_Label(kind)>> \notin Range(derivations)
            /\ \A i \in 1..Len(kpis_list) : kpis_list[i].metric \notin C7_Tiles(kind)

\* the labels of the blocks that ran and produced metrics, in the fixed order
C8_Labels ==
    LET L(kind) == IF KindApplies(kind) /\ RunBlockOf(kind, df).kpis # <<>>
                   THEN << <<C7_Label(kind)>> >> ELSE <<>>
    IN  L("delivery") \o L("payment") \o L("review")

\* C8: for every non-empty result set the derivation is the labels of the
\* blocks that contributed, joined by the arrow in the fixed order, and it is
\* "Generic analysis" when there is none, in particular whenever the metrics
\* come from the generic fallback.
C8_Derivation ==
    (Returned /\ NRows(df) > 0) =>
        /\ artifact.derivation =
              IF C8_Labels = <<>> THEN <<"Generic analysis">> ELSE Join(" -> ", C8_Labels)
        /\ HasRun("_generic_stats") => artifact.derivation = <<"Generic analysis">>

\* the late-indicator column of the delivery block, and what it holds
C9_LateCol == df.cols[LateColIndex(df)]

C9_LateRows ==
    Cardinality({i \in 1..NRows(df) : i \notin C9_LateCol.na /\ C9_LateCol.vals[i] = 1})

C9_NonMissing == NRows(df) - Cardinality(C9_LateCol.na)

\* the delivery block has run on a numeric or boolean indicator column
C9_Measured ==
    /\ HasRun("delivery")
    /\ LateColIndex(df) # 0
    /\ C9_LateCol.dtype \in {"int64", "float64", "bool"}
    /\ \A i \in 1..NRows(df) : i \notin C9_LateCol.na => C9_LateCol.vals[i] \in {0, 1}

C9_High == "- **High late delivery rate** at {}% - consider logistics optimization"
C9_Good == "- Delivery performance is **good** with {}% late rate"

\* C9 (as stated): the late count is the number of late rows, the late rate
\* is late rows / row count x 100, and the narrative is the "high" one iff
\* that rate is above 10, else the "good" one.
C9_RateOverRowCount ==
    C9_Measured =>
        /\ kpis_list[1].metric = "Late Delivery Rate"
        /\ kpis_list[1].value.digits = RoundHalfEven(1000 * C9_LateRows, NRows(df))
        /\ kpis_list[2].metric = "Late Deliveries"
        /\ kpis_list[2].value.digits = C9_LateRows
        /\ narratives[1][1].text =
              IF 100 * C9_LateRows > 10 * NRows(df) THEN C9_High ELSE C9_Good

\* C9 (amended): the late count is the number of late rows, the late rate is
\* late rows / rows with a value x 100 (shown as nan when no row has a
\* value), and the narrative is the "high" one iff that rate is above 10,
\* else (at exactly 10, below, or nan) the "good" one.
C9_LateRate ==
    C9_Measured =>
        /\ kpis_list[1].metric = "Late Delivery Rate"
        /\ IF C9_NonMissing = 0
           THEN kpis_list[1].value.nan
           ELSE /\ ~kpis_list[1].value.nan
                /\ kpis_list[1].value.digits = RoundHalfEven(1000 * C9_LateRows, C9_NonMissing)
        /\ kpis_list[2].metric = "Late Deliveries"
        /\ kpis_list[2].value.digits = C9_LateRows
        /\ narratives[1][1].text =
              IF C9_NonMissing > 0 /\ 100 * C9_LateRows > 10 * C9_NonMissing
              THEN C9_High ELSE C9_Good

\* 1 late row of 10, none missing: exactly 10%, reported as good
C9_Witness ==
    /\ C9_Measured
    /\ NRows(df) = 10
    /\ C9_NonMissing = 10
    /\ C9_LateRows = 1
    /\ kpis_list[1].value.digits = 100
    /\ narratives[1][1].text = C9_Good

\* the value column of the payment block
C10_ValueCol == df.cols[ValueColIndex(df)]

C10_Skew ==
    Line("- **Right-skewed distribution** - few high-value transactions pull up the average", <<>>)

C10_Flagged == \E i \in 1..Len(narratives) : C10_Skew \in Range(narratives[i])

\* the payment block has run on a numeric value column
C10_Measured ==
    /\ HasRun("payment")
    /\ ValueColIndex(df) # 0
    /\ C10_ValueCol.dtype \in {"int64", "float64"}

\* the accumulated tiles hold "Total Value" = total, then "Average" = mean
C10_Tiles(total, mean100) ==
    \E i \in 1..(Len(kpis_list) - 1) :
        /\ kpis_list[i].metric = "Total Value"
        /\ kpis_list[i].value.digits = total
        /\ kpis_list[i + 1].metric = "Average"
        /\ ~kpis_list[i + 1].value.nan
        /\ kpis_list[i + 1].value.digits = mean100

\* C10: on a numeric value column the payment block reports total = sum and
\* average = mean (to 2 decimals), and flags a right-skewed distribution iff
\* average > 1.5 x median; [100, 100, 100, 100, 500] gives 900, 180.00 and
\* the flag.
C10_PaymentStats ==
    C10_Measured =>
        LET total == SumSeq(NonNull(C10_ValueCol))
            count == Len(NonNull(C10_ValueCol))
        IN  /\ count > 0 => C10_Tiles(total, RoundHalfEven(100 * total, count))
            /\ C10_Flagged <=>
                  (count > 0 /\ 4 * total > 3 * Median2(C10_ValueCol) * count)
            /\ (C10_ValueCol.vals = <<100, 100, 100, 100, 500>> /\ C10_ValueCol.na = {}) =>
                  C10_Tiles(900, 18000) /\ C10_Flagged

\* the payment block has run on [100, 100, 100, 100, 500]
C10_Witness ==
    /\ C10_Measured
    /\ C10_ValueCol.vals = <<100, 100, 100, 100, 500>>
    /\ C10_Flagged

(***************************************************************************)
(* Several calls on one engine                                             *)
(***************************************************************************)
C11_SameInputsAsFirst ==
    /\ calls > 1
    /\ question = first.question
    /\ sql = first.sql
    /\ df = first.df

C11_SameAsFresh ==
    (C11_SameInputsAsFirst /\ pc \in {"done", "raised"}) =>
        /\ pc = first.pc
        /\ artifact = first.artifact

\* nothing but a new call replaces the schema or the result set
C11_Frame ==
    /\ schema' = schema
    /\ (pc # "done" /\ pc # "raised") => df' = df

\* C11: over any sequence of calls of run on one engine, run changes neither
\* the engine's schema nor the result set it is given, and a call ends as the
\* call with the same question, SQL and result set ended on the engine when
\* it was new: the same artifact, or an exception in both.
C11_NoSharedState == [](C11_SameAsFresh) /\ [][C11_Frame]_vars

\* a later call, after other calls, repeats the first call's arguments and
\* returns block metrics
C11_Witness ==
    /\ calls = MaxCalls
    /\ C11_SameInputsAsFirst
    /\ Returned
    /\ Len(artifact.kpis) > 3
    /\ Len(artifact.charts) = MaxCharts

(***************************************************************************)
(* The narrative of the generic fallback                                   *)
(***************************************************************************)
C12_FallbackRan == Returned /\ "_generic_stats" \in Range(invoked)

\* the narrative of _generic_stats: the row and column counts, then the
\* number of numeric columns when there is one
C12_GenericNarrative ==
    LET numeric == Cardinality({k \in 1..Len(df.cols) :
                                    df.cols[k].dtype \in {"int64", "float64"}})
    IN     <<Line("- Result contains **{} rows** across **{} columns**",
                  <<Fmt(",d", df.nrows, 1, 0), Fmt("d", Len(df.cols), 1, 0)>>)>>
        \o (IF numeric > 0
            THEN <<Line("- {} numeric field(s) available for aggregation",
                        <<Fmt("d", numeric, 1, 0)>>)>>
            ELSE <<>>)

\* C12: whenever the generic fallback has run, the narrative of the artifact
\* is exactly the narrative of the generic fallback: no fragment of a block
\* and no separating blank line comes before it.
C12_FallbackNarrativeAlone ==
    C12_FallbackRan =>
        /\ artifact.narrative = C12_GenericNarrative
        /\ BlankLine \notin Range(artifact.narrative)

\* the fallback ran after a block had returned a result without metrics
C12_Witness ==
    /\ C12_FallbackRan
    /\ derivations # <<>>
    /\ Len(artifact.narrative) = 2

(***************************************************************************)
(* The value column of the payment block                                   *)
(***************************************************************************)
C13_Words == {s_value, s_price, s_revenue, s_payment}

C13_Named(k) == \E w \in C13_Words : Contains(Lower(df.cols[k].name), w)

C13_Numeric(k) == df.cols[k].dtype \in {"int64", "float64"}

\* the position of the first column, in column order, named as a value column
C13_First ==
    IF \E k \in 1..Len(df.cols) : C13_Named(k)
    THEN CHOOSE k \in 1..Len(df.cols) :
            C13_Named(k) /\ \A j \in 1..(k - 1) : ~C13_Named(j)
    ELSE 0

\* the payment block returned a result
C13_Output == <<"Payment analysis">> \in Range(derivations)

C13_TotalShown(total) ==
    \E i \in 1..Len(kpis_list) :
        kpis_list[i].metric = "Total Value" /\ kpis_list[i].value.digits = total

\* C13: once the payment block has run, it has returned a result iff the
\* first column named as a value column exists and is numeric, even when a
\* later such column is numeric; the total it reports is that first column's.
C13_FirstValueColumn ==
    HasRun("payment") =>
        /\ C13_Output <=> (C13_First # 0 /\ C13_Numeric(C13_First))
        /\ C13_Output => C13_TotalShown(SumSeq(NonNull(df.cols[C13_First])))
        /\ ~C13_Output =>
              \A i \in 1..Len(kpis_list) :
                  kpis_list[i].metric \notin {"Total Value", "Average"}

\* the payment block ran and returned nothing on a result set whose first value
\* column holds text and whose later value column is numeric
C13_Witness ==
    /\ HasRun("payment")
    /\ ~C13_Output
    /\ C13_First # 0
    /\ \E k \in (C13_First + 1)..Len(df.cols) : C13_Named(k) /\ C13_Numeric(k)

(***************************************************************************)
(* The delivery block fails closed                                         *)
(***************************************************************************)
C14_LateNamed == \E k \in 1..Len(df.cols) : Contains(Lower(df.cols[k].name), s_late)

C14_DeliveryNamed ==
    \E k \in 1..Len(df.cols) :
        /\ Contains(Lower(df.cols[k].name), s_delivery)
        /\ ~Contains(Lower(df.cols[k].name), s_date)

\* the only columns the selector takes as delivery columns are date columns
C14_OnlyDateMarkers ==
    /\ \E k \in 1..Len(df.cols) : Contains(Lower(df.cols[k].name), s_delivery)
    /\ ~C14_DeliveryNamed
    /\ ~C14_LateNamed

\* the delivery block has run and returned None: it neither raised nor left
\* its label
C14_ReturnedNothing ==
    /\ HasRun("delivery")
    /\ pc # "raised"
    /\ <<"Delivery analysis">> \notin Range(derivations)

\* C14: once the delivery block has run, it has returned nothing iff no column
\* name contains "late" and no column name contains "delivery" without "date";
\* so a result set whose only delivery column is a date column, when the
\* selector selects the block, gets no delivery output.
C14_DeliveryFailsClosed ==
    /\ HasRun("delivery") =>
          (C14_ReturnedNothing <=> (~C14_LateNamed /\ ~C14_DeliveryNamed))
    /\ (C14_OnlyDateMarkers /\ "_infer_blocks" \in Range(invoked)
            /\ \E i \in 1..Len(kw_delivery) :
                    \/ Contains(Lower(question), kw_delivery[i])
                    \/ Contains(Lower(sql), kw_delivery[i])) =>
          /\ "delivery" \in Range(blocks)
          /\ (bi > 1 => C14_ReturnedNothing)
          /\ \A i \in 1..Len(kpis_list) :
                kpis_list[i].metric \notin {"Late Delivery Rate", "Late Deliveries"}

\* the block was selected for a result set with a delivery_date column only,
\* ran, and the call returned without delivery output
C14_Witness ==
    /\ C14_OnlyDateMarkers
    /\ C14_ReturnedNothing
    /\ Returned

(***************************************************************************)
(* The remarks of the review block                                         *)
(***************************************************************************)
C15_Named(k) ==
    \/ Contains(Lower(df.cols[k].name), s_score)
    \/ Contains(Lower(df.cols[k].name), s_rating)

\* the first column, in column order, named as a score column
C15_ScoreCol ==
    df.cols[CHOOSE k \in 1..Len(df.cols) :
                C15_Named(k) /\ \A j \in 1..(k - 1) : ~C15_Named(j)]

\* the review block has run on a numeric score column
C15_Measured ==
    /\ HasRun("review")
    /\ \E k \in 1..Len(df.cols) : C15_Named(k)
    /\ C15_ScoreCol.dtype \in {"int64", "float64"}

C15_Said(text) ==
    \E i \in 1..Len(narratives) : \E j \in 1..Len(narratives[i]) :
        narratives[i][j].text = text

C15_Excellent ==
    C15_Said("- **Excellent** customer satisfaction with high average rating")

C15_Concerning ==
    C15_Said("- **Concerning** low average rating - investigate quality issues")

C15_LowRemark == C15_Said("- {} low ratings (<=2) require attention")

\* the sum and the number of the scores, and whether one is 2 or less
C15_Total == SumSeq(NonNull(C15_ScoreCol))
C15_Count == Len(NonNull(C15_ScoreCol))
C15_HasLow ==
    \E i \in 1..Len(C15_ScoreCol.vals) :
        i \notin C15_ScoreCol.na /\ C15_ScoreCol.vals[i] <= 2

\* C15: on a numeric score column the narrative of the review block has the
\* "Excellent" remark iff the average is >= 4.0, the "Concerning" remark iff
\* it is < 3.0, neither from 3.0 up to but not including 4.0, and the low
\* ratings remark iff some score is <= 2, whatever the average.
C15_ReviewRemarks ==
    (C15_Measured /\ C15_Count > 0) =>
        /\ C15_Excellent  <=> C15_Total >= 4 * C15_Count
        /\ C15_Concerning <=> C15_Total < 3 * C15_Count
        /\ (3 * C15_Count <= C15_Total /\ C15_Total < 4 * C15_Count) =>
                ~C15_Excellent /\ ~C15_Concerning
        /\ C15_LowRemark <=> C15_HasLow

\* an average of exactly 4.0 with a low score among the scores: both remarks
C15_Witness ==
    /\ C15_Measured
    /\ C15_Total = 4 * C15_Count
    /\ C15_HasLow
    /\ C15_Excellent
    /\ C15_LowRemark

\* an average of exactly 3.0: no remark on satisfaction
C15_WitnessThree ==
    /\ C15_Measured
    /\ C15_Count > 0
    /\ C15_Total = 3 * C15_Count
    /\ ~C15_Excellent /\ ~C15_Concerning

(***************************************************************************)
(* The charts of the blocks                                                *)
(***************************************************************************)
C16_DeliveryChart ==
    \E i \in 1..Len(charts) : charts[i].title = "Late Delivery Rate by State"

C16_Histogram ==
    \E i \in 1..Len(charts) : charts[i].title = "Review Score Distribution"

C16_StateNamed == \E k \in 1..Len(df.cols) : Contains(Lower(df.cols[k].name), s_state)

\* the review block has returned a result
C16_ReviewOutput == <<"Review analysis">> \in Range(derivations)

\* C16: the delivery chart is made only when a late column and a state column
\* exist and the result set has more than one row; the review block, when it
\* returns a result, makes its histogram iff the result set has more than 10
\* rows; a result set of one row gets neither chart.
C16_ChartGates ==
    pc \in {"loop", "done"} =>
        /\ C16_DeliveryChart => (C14_LateNamed /\ C16_StateNamed /\ df.nrows > 1)
        /\ C16_Histogram => C16_ReviewOutput
        /\ C16_ReviewOutput => (C16_Histogram <=> df.nrows > 10)
        /\ df.nrows = 1 => (~C16_DeliveryChart /\ ~C16_Histogram)

\* both charts made on a result set of more than 10 rows
C16_Witness ==
    /\ Returned
    /\ C16_DeliveryChart
    /\ C16_Histogram
    /\ df.nrows > 10

\* the review block returned a result without a histogram on exactly 10 rows
C16_WitnessTen ==
    /\ Returned
    /\ C16_ReviewOutput
    /\ ~C16_Histogram
    /\ df.nrows = 10

(***************************************************************************)
(* The application: the adapter, the bridge and run_with_results           *)
(***************************************************************************)

\* no handler has called get_adapter yet: nothing was constructed
C17_NothingBeforeFirstUse ==
    last = NoHandlerYet => (~adapter.set /\ constructions = 0)

\* the global holds an adapter exactly when one construction has succeeded
C17_AtMostOnce ==
    /\ constructions <= 1
    /\ adapter.set <=> constructions = 1
    /\ adapter.set => adapter.id = 1

\* a handler whose construction raised leaves the global unset, every call
\* of get_adapter that found it unset ran the constructor, and a call that
\* did not run it found the adapter set
C17_RaiseLeavesUnset ==
    /\ last.load_raised => ~adapter.set
    /\ (last.gets > 0 /\ ~adapter.set) => (last.load_raised /\ last.loads = last.gets)
    /\ (last.gets > 0 /\ last.loads = 0) => adapter.set

\* a step keeps the adapter once it is set, and a step that constructs one
\* is a step of a handler that calls get_adapter
C17_Step ==
    /\ adapter.set => adapter' = adapter
    /\ adapter' # adapter => (~adapter.set /\ adapter'.set /\ last'.gets > 0 /\ last'.loads > 0)
    /\ constructions' # constructions => adapter' # adapter

\* C17: the adapter is loaded lazily: NL2SQLAdapters is not constructed before
\* the first call of get_adapter, it is constructed with success at most once,
\* every later call of get_adapter returns that same instance, and a
\* construction that raises leaves the global unset, so that the next call
\* runs the constructor again.
C17_LazyAdapter ==
    /\ [](C17_NothingBeforeFirstUse /\ C17_AtMostOnce /\ C17_RaiseLeavesUnset)
    /\ [][C17_Step]_vars

\* a handler got the adapter without constructing it, although the
\* constructor would raise on the files as they are now
C17_Witness ==
    /\ adapter.set
    /\ constructions = 1
    /\ last.gets > 0
    /\ last.loads = 0
    /\ Load(env).outcome # "ok"

\* a handler's construction raised and left the global unset
C17_WitnessRaised ==
    /\ last.load_raised
    /\ last.loads > 0
    /\ ~adapter.set

\* the names the notebook's cells bind when every code cell without a Colab
\* keyword is executed, a failing one included, and the others are left out
C18_NotebookNames ==
    UNION {env.notebook.cells[i].defines :
             i \in {j \in 1..Len(env.notebook.cells) :
                      /\ env.notebook.cells[j].cell_type = "code"
                      /\ ~env.notebook.cells[j].colab}}

\* the tiers in the order they are tried: A, C, B
C18_Tiers ==
    << [name |-> "A", exists |-> env.export.exists, callables |-> env.export.ns.callables],
       [name |-> "C", exists |-> env.pyexport.exists, callables |-> env.pyexport.ns.callables],
       [name |-> "B", exists |-> env.notebook.exists, callables |-> C18_NotebookNames] >>

\* the tiers whose file exists and whose namespace binds a candidate name of
\* generate_sql and a candidate name of execute_sql to a callable
C18_ProvidingBoth ==
    {i \in 1..3 :
        /\ C18_Tiers[i].exists
        /\ \A key \in {"generate_sql", "execute_sql"} :
              /\ key \in DOMAIN env.mapping
              /\ \E k \in 1..Len(env.mapping[key]) :
                    env.mapping[key][k] \in C18_Tiers[i].callables}

\* neither exported file raises when it is run
C18_FilesRun ==
    /\ ~(env.export.exists /\ env.export.raises)
    /\ ~(env.pyexport.exists /\ env.pyexport.raises)

\* what the claim says a construction does on the files as they are
C18_AsStated ==
    LET b == Load(env)
        exported == C18_ProvidingBoth \cap {1, 2}
    IN  /\ C18_ProvidingBoth # {} /\ (exported # {} \/ env.notebook.exists) =>
              LET i == CHOOSE x \in C18_ProvidingBoth :
                           \A y \in C18_ProvidingBoth : x <= y
              IN  /\ b.outcome = "ok"
                  /\ b.tier = C18_Tiers[i].name
                  /\ b.ns.callables = C18_Tiers[i].callables
        /\ (exported = {} /\ ~env.notebook.exists) => b.outcome = "FileNotFoundError"
        /\ (C18_ProvidingBoth = {} /\ env.notebook.exists) => b.outcome = "RuntimeError"

\* C18: the bridge tries nl2sql_export.py (Tier A), then the exported .py
\* (Tier C), then the executed notebook (Tier B); it stops at the first tier
\* whose namespace provides callables for both generate_sql and execute_sql
\* and keeps that namespace; with no such exported file and no notebook it
\* raises FileNotFoundError, with a notebook that lacks the functions
\* RuntimeError; a failing cell is skipped.  The adapter the application
\* holds therefore always has both functions.
C18_TieredLoad ==
    /\ C18_FilesRun => C18_AsStated
    /\ adapter.set =>
          \A key \in {"generate_sql", "execute_sql"} :
              FindCallable(adapter.bridge.ns, MappingGet(adapter.bridge.mapping, key)) # ""

\* the same for a function mapping that names both required functions
C18_TieredLoadBothMapped ==
    ({"generate_sql", "execute_sql"} \subseteq DOMAIN env.mapping /\ C18_FilesRun)
        => C18_AsStated

\* the notebook was executed past a failing cell and gave both functions
C18_WitnessSkippedCell ==
    /\ adapter.set
    /\ adapter.bridge.tier = "B"
    /\ \E i \in 1..Len(env.notebook.cells) : env.notebook.cells[i].fails
    /\ Load(env).tier = "B"

\* an adapter is held whose bridge has no generate function
C18_WitnessNoGenerate ==
    /\ adapter.set
    /\ FindCallable(adapter.bridge.ns, MappingGet(adapter.bridge.mapping, "generate_sql")) = ""

\* run_with_results is running or was the last handler to run
C19_RunWithResults == last.handler = "run_with_results"

\* the SQL that generation returned is not empty and does not start with "--"
C19_UsableSql ==
    /\ out.sql # <<>>
    /\ (Len(out.sql) < 2 \/ out.sql[1] # "-" \/ out.sql[2] # "-")

\* the adapter failed to initialise, the question was blank, the generate
\* function was unavailable, or it raised
C19_GenerationFailed ==
    last.cause \in {"init_failed", "blank", "unavailable", "raised"}

\* nothing is shown but the SQL text and the details
C19_NothingShown ==
    /\ out.df.nrows = 0
    /\ out.insights_html.tiles = <<>>
    /\ out.insights_html.narrative = <<>>
    /\ out.chart1 = <<>>
    /\ out.chart2 = <<>>

\* the engine is called by run_with_results only, and then on usable SQL
C19_EngineCalled == pc # "idle" => (C19_RunWithResults /\ last.analyzed /\ sql = out.sql)

\* C19: in run_with_results SQL is executed and insights are analysed only
\* after generation returned a non-empty SQL text that does not start with
\* "--"; when the adapter fails to initialise, the question is blank, the
\* generate function is unavailable or it raises, no SQL is executed, the
\* results table is empty, and the insights text and both chart slots are
\* empty.
C19_AnalysisOnlyAfterSql ==
    C19_RunWithResults =>
        /\ (last.executed \/ last.analyzed \/ app_pc # "idle") => C19_UsableSql
        /\ C19_EngineCalled
        /\ C19_GenerationFailed =>
              (~last.executed /\ ~last.analyzed /\ app_pc = "idle" /\ C19_NothingShown)
        /\ ~C19_UsableSql => (~last.executed /\ ~last.analyzed /\ C19_NothingShown)

\* run_with_results has returned with insights after an execution
C19_Witness ==
    /\ C19_RunWithResults
    /\ app_pc = "idle"
    /\ last.executed
    /\ last.analyzed
    /\ out.insights_html.tiles # <<>>
    /\ out.chart1 # <<>>

\* run_with_results has returned on the text of a raising generate function
C19_WitnessRaised ==
    /\ C19_RunWithResults
    /\ app_pc = "idle"
    /\ last.cause = "raised"
    /\ out.sql = t_error

\* run_with_results has returned on a generated comment
C19_WitnessComment ==
    /\ C19_RunWithResults
    /\ app_pc = "idle"
    /\ last.cause = "returned"
    /\ out.sql = t_comment

(***************************************************************************)
(* The history                                                             *)
(***************************************************************************)

\* C20: each "Save to History" appends exactly one entry (timestamp,
\* question, sql, status) to the history, so that after n saves following a
\* clear (or the start of the session) the history holds exactly n entries,
\* and "Clear" resets it to the empty list.
C20_OneEntryPerSave ==
    /\ Len(history) = saves
    /\ saves = 0 => (history = <<>> /\ history_display.text = "*No history*")

\* what the handlers do: two entries for each save, none after a clear
C20_TwoEntriesPerSave ==
    /\ Len(history) = 2 * saves
    /\ \A i \in 1..Len(history) : history[i].status = "success"
    /\ \A i \in 1..saves :
          /\ history[2 * i - 1].question = history[2 * i].question
          /\ history[2 * i - 1].sql = history[2 * i].sql
    /\ Len(history_display.lines) = Len(history)
    /\ saves = 0 => (history = <<>> /\ history_display.text = "*No history*")

\* a clear has emptied a history that held entries
C20_ClearStep ==
    (history # <<>> /\ history' = <<>>) =>
        (saves' = 0 /\ history_display'.text = "*No history*")

\* one save after a clear: the history holds two entries
C20_WitnessOneSave ==
    /\ saves = 1
    /\ clock > 2
    /\ Len(history) = 2

=============================================================================
